---------------------------- MODULE Spec2Model ----------------------------
(***************************************************************************)
(* Verification model of the sevenz-rust2 helpers: solid grouping in       *)
(* util/compress.rs, decoder construction in decoder.rs, the skippable-    *)
(* frame Brotli/Lz4 codecs, the Encoder enum and the AES-256-SHA256        *)
(* stream cipher.  Each subsystem has its own specification over its own   *)
(* variables; the variables of the other subsystems stay at their initial  *)
(* values.                                                                 *)
(***************************************************************************)
EXTENDS Integers, Sequences, FiniteSets, TLC

VARIABLES
    \* ---- util/compress.rs + writer/reader round trip ----
    folder,      \* the source directory: sequence of files in read_dir order
    zipCalls,    \* calls made on the ArchiveWriter, in order
    expected,    \* history: every (name, bytes) the caller pushed
    archive,     \* the finished archive, or NoArchive
    destFs,      \* the extraction directory: set of [name, content]
    wpc,         \* writer life cycle: "accepting", "finished", "extracted"
    \* ---- codec/brotli.rs, codec/lz4.rs: skippable-frame decoder ----
    fcfg,        \* [codec, kind, frames, first]: the stream and its first read
    fd,          \* the decoder: source, InnerReader, BufReader, codec state
    fout,        \* bytes delivered to the caller so far
    fret,        \* result of the last call: "none", "built", "data", "eof", "err"
    \* ---- codec/brotli.rs, codec/lz4.rs: framed encoder ----
    fe,          \* InnerWriter::Framed, its sink, and the history of frames
    feret,       \* result of the last call on the encoder
    \* ---- encoder.rs: the Encoder enum over a CountingWriter ----
    en,          \* variant, Option slot, wrapped codec, CountingWriter stream
    enret,       \* result of the last call on the Encoder
    \* ---- encryption/aes.rs: Aes256Sha256Encoder over a sink ----
    ae,          \* the encoder, its sink and the history of encrypted blocks
    aret,        \* result of the last call on the AES encoder
    \* ---- decoder.rs: add_decoder ----
    addArgs,     \* the arguments of the call, or NoCall
    addRes,      \* what the call returned and what it did to get there
    \* ---- encryption/aes.rs: Aes256Sha256Decoder over a source ----
    ad,          \* the decoder, its Cipher, its source and the delivered bytes
    adret,       \* result of the last poll_read on the AES decoder
    \* ---- writer/counting_writer.rs ----
    cw,          \* the CountingWriter: shared counter, inner sink, history
    cwret,       \* result of the last call on the CountingWriter
    \* ---- property encoding and key derivation: one function call ----
    fn,          \* the call: function name and arguments, loop position
    fnret,       \* what the call returned
    \* ---- encoder.rs: StripLzmaHeaderWrite ----
    sw,          \* the writer: offset, sink, the caller's stream position
    swret        \* result of the last call on StripLzmaHeaderWrite

solidVars == <<folder, zipCalls, expected, archive, destFs, wpc>>

fdecVars == <<fcfg, fd, fout, fret>>

fencVars == <<fe, feret>>

encVars == <<en, enret>>

aesVars == <<ae, aret>>

addVars == <<addArgs, addRes>>

adecVars == <<ad, adret>>

cwVars == <<cw, cwret>>

fnVars == <<fn, fnret>>

stripVars == <<sw, swret>>

vars == <<solidVars, fdecVars, fencVars, encVars, aesVars, addVars, adecVars, cwVars,
          fnVars, stripVars>>

(***************************************************************************)
(* Idle values: what a subsystem's variables hold while another            *)
(* subsystem's specification runs.                                         *)
(***************************************************************************)
NoDecoder == [st |-> "none"]

IdleFdec ==
    /\ fcfg = [kind |-> "none"]
    /\ fd = NoDecoder
    /\ fout = <<>>
    /\ fret = "none"

IdleFenc ==
    /\ fe = [st |-> "none"]
    /\ feret = "none"

IdleEnc ==
    /\ en = [variant |-> "none"]
    /\ enret = "none"

IdleAes ==
    /\ ae = [st |-> "none"]
    /\ aret = "none"

NoCall == [id |-> "none"]

IdleAdd ==
    /\ addArgs = NoCall
    /\ addRes = [res |-> "none"]

IdleAdec ==
    /\ ad = [st |-> "none"]
    /\ adret = "none"

IdleCw ==
    /\ cw = [st |-> "none"]
    /\ cwret = "none"

IdleFn ==
    /\ fn = [name |-> "none"]
    /\ fnret = [res |-> "none"]

IdleStrip ==
    /\ sw = [st |-> "none"]
    /\ swret = "none"

(***************************************************************************)
(* 64-bit sizes.  A u64 is kept as two limbs <<hi, lo>>, value             *)
(* hi * 2^16 + lo, so that 4 GiB and its neighbours are exact.             *)
(***************************************************************************)
Limb == 256 * 256

U64(hi, lo) == <<hi, lo>>

Zero64 == U64(0, 0)

U64OfInt(n) == U64(n \div Limb, n % Limb)

Add64(a, b) ==
    LET lo == a[2] + b[2]
    IN  U64(a[1] + b[1] + (lo \div Limb), lo % Limb)

Ge64(a, b) == (a[1] > b[1]) \/ (a[1] = b[1] /\ a[2] >= b[2])

Gt64(a, b) == (a[1] > b[1]) \/ (a[1] = b[1] /\ a[2] > b[2])

\* const MAX_BLOCK_SIZE: u64 = 4 * 1024 * 1024 * 1024
MAX_BLOCK_SIZE_8GiB == U64(2 * Limb, 0)
MAX_BLOCK_SIZE == U64(Limb, 0)

\* 4 GiB - 1, the cap the specification names
CapMinusOne == U64(Limb - 1, Limb - 1)

(***************************************************************************)
(* Bounds of the solid model.                                              *)
(***************************************************************************)
MaxFiles == 3
MaxDirect == 1

\* File sizes that straddle the threshold.
FileSizes ==
    { Zero64, U64(0, 1), U64(Limb \div 2, 0),
      U64(Limb - 1, Limb - 1), MAX_BLOCK_SIZE, U64(Limb, 1) }

\* The bytes of a file are abstracted to a short run of distinct tokens
\* <<name, i>>: empty for a zero-size file, one token for a one-byte file,
\* two tokens otherwise.
ContentLen(size) ==
    IF size = Zero64 THEN 0 ELSE IF size = U64(0, 1) THEN 1 ELSE 2

ContentOf(name, n) == [i \in 1..n |-> <<name, i>>]

MkFile(name, size) ==
    [name |-> name, size |-> size, content |-> ContentOf(name, ContentLen(size))]

NoArchive == [files |-> <<>>, blocks |-> <<>>, open |-> FALSE]

RECURSIVE Concat(_)
Concat(ss) == IF ss = <<>> THEN <<>> ELSE Head(ss) \o Concat(Tail(ss))

(***************************************************************************)
(* encode_path, solid branch (compress.rs 263-291).                        *)
(***************************************************************************)
\* LazyFileReader::new(path): a reader that opens the path when first read
LazyReader(path) == [kind |-> "lazy", path |-> path, data |-> <<>>]

CursorReader(data) == [kind |-> "cursor", path |-> 0, data |-> data]

\* zip.push_archive_entry(entry, Some(reader))
EntryCall(f) ==
    [kind |-> "entry", entries |-> <<f.name>>, files |-> <<LazyReader(f.name)>>]

\* zip.push_archive_entries(entries, files), and the variant that hands the
\* readers over in the opposite order
EntriesCall_reversed(acc) ==
    [kind |-> "entries", entries |-> acc.entries,
     files |-> [i \in 1..Len(acc.files) |-> acc.files[Len(acc.files) + 1 - i]]]

EntriesCall(acc) ==
    [kind |-> "entries", entries |-> acc.entries, files |-> acc.files]

\* size >= MAX_BLOCK_SIZE (line 269)
IsOversize(size) == Ge64(size, MAX_BLOCK_SIZE)

\* file_size + size >= MAX_BLOCK_SIZE (line 277), and its off-by-one variant
MustFlush_gt(file_size, size) == Gt64(Add64(file_size, size), MAX_BLOCK_SIZE)
MustFlush(file_size, size) == Ge64(Add64(file_size, size), MAX_BLOCK_SIZE)

\* entries = Vec::new(); files = Vec::new(); file_size = 0 (lines 279-281),
\* and the variant that forgets to reset `files`
AfterFlush_keepFiles(acc) ==
    [entries |-> <<>>, files |-> acc.files, file_size |-> Zero64]
AfterFlush(acc) == [entries |-> <<>>, files |-> <<>>, file_size |-> Zero64]

\* file_size += size; entries.push(..); files.push(..) (lines 283-285)
Accumulate(acc, f) ==
    [entries |-> Append(acc.entries, f.name),
     files |-> Append(acc.files, LazyReader(f.name)),
     file_size |-> Add64(acc.file_size, f.size)]

RECURSIVE SolidLoop(_, _, _)
SolidLoop(paths, acc, calls) ==
    IF paths = <<>>
    THEN IF acc.entries # <<>> THEN Append(calls, EntriesCall(acc)) ELSE calls
    ELSE LET ele == Head(paths)
         IN  IF IsOversize(ele.size)
             THEN SolidLoop(Tail(paths), acc, Append(calls, EntryCall(ele)))
             ELSE IF MustFlush(acc.file_size, ele.size)
                  THEN SolidLoop(Tail(paths), Accumulate(AfterFlush(acc), ele),
                                 Append(calls, EntriesCall(acc)))
                  ELSE SolidLoop(Tail(paths), Accumulate(acc, ele), calls)

\* encode_path, non-solid branch (lines 251-262)
RECURSIVE NonSolidLoop(_, _)
NonSolidLoop(paths, calls) ==
    IF paths = <<>> THEN calls
    ELSE NonSolidLoop(Tail(paths), Append(calls, EntryCall(Head(paths))))

\* let mut entries = Vec::new(); let mut files = Vec::new(); let mut file_size = 0
EmptyAcc == [entries |-> <<>>, files |-> <<>>, file_size |-> Zero64]

encode_path(solid, paths) ==
    IF solid
    THEN SolidLoop(paths, EmptyAcc, <<>>)
    ELSE NonSolidLoop(paths, <<>>)

(***************************************************************************)
(* The archive writer and reader.  Their sources are not part of the       *)
(* files modelled here; they follow the specification: finish()            *)
(* materialises one block per push_archive_entries call and one per        *)
(* push_archive_entry call, streams every entry's reader through, records  *)
(* the byte count of each substream and stores zero-length entries         *)
(* without a stream.  The codec chain is a byte-in/byte-out transform and  *)
(* is taken as the identity on the block payload.                          *)
(***************************************************************************)
FolderContent(path) ==
    LET i == CHOOSE j \in 1..Len(folder) : folder[j].name = path
    IN  folder[i].content

\* what a source reader yields when streamed to its end at finish() time
ReadAll(r) == IF r.kind = "lazy" THEN FolderContent(r.path) ELSE r.data

\* the i-th entry of a call is fed from the i-th reader
EntryBytes(c, i) == IF i <= Len(c.files) THEN ReadAll(c.files[i]) ELSE <<>>

CallFiles(c) ==
    [i \in 1..Len(c.entries) |->
        [name |-> c.entries[i],
         size |-> Len(EntryBytes(c, i)),
         has_stream |-> Len(EntryBytes(c, i)) > 0]]

CallBlock(c) ==
    [payload |-> Concat([i \in 1..Len(c.entries) |-> EntryBytes(c, i)]),
     num_streams |-> Cardinality({i \in 1..Len(c.entries) : Len(EntryBytes(c, i)) > 0})]

RECURSIVE FinishArchive(_, _)
FinishArchive(calls, ar) ==
    IF calls = <<>> THEN ar
    ELSE LET c == Head(calls)
             b == CallBlock(c)
         IN  FinishArchive(Tail(calls),
                 [files |-> ar.files \o CallFiles(c),
                  blocks |-> IF b.num_streams = 0 THEN ar.blocks
                             ELSE Append(ar.blocks, b),
                  open |-> TRUE])

\* afs::write(path, data) / afs::File::create(path): create or truncate
WriteFile(fs, name, data) ==
    {e \in fs : e.name # name} \cup {[name |-> name, content |-> data]}

\* default_entry_extract_fn_async for a file entry (decompress.rs 270-286):
\* entries of size 0 are created empty, the others get the reader's bytes
default_entry_extract_fn(fs, entry, readerBytes) ==
    IF entry.size > 0
    THEN WriteFile(fs, entry.name, readerBytes)
    ELSE WriteFile(fs, entry.name, <<>>)

\* ArchiveReader::for_each_entries: entries in archive order; the entries of
\* a block are cut from its payload one after the other by their sizes.
\* cur = <<block index, offset in block, streams taken from block>>
RECURSIVE for_each_entries(_, _, _, _)
for_each_entries(files, blocks, cur, fs) ==
    IF files = <<>> THEN fs
    ELSE LET f == Head(files)
         IN  IF ~f.has_stream
             THEN for_each_entries(Tail(files), blocks, cur,
                                   default_entry_extract_fn(fs, f, <<>>))
             ELSE LET c == IF cur[3] >= blocks[cur[1]].num_streams
                           THEN <<cur[1] + 1, 0, 0>> ELSE cur
                      data == SubSeq(blocks[c[1]].payload, c[2] + 1, c[2] + f.size)
                  IN  for_each_entries(Tail(files), blocks,
                                       <<c[1], c[2] + f.size, c[3] + 1>>,
                                       default_entry_extract_fn(fs, f, data))

(***************************************************************************)
(* Operations of the solid model.                                          *)
(***************************************************************************)
FolderEntries == {[name |-> folder[i].name, content |-> folder[i].content] : i \in 1..Len(folder)}

SourcePushed == \E i \in 1..Len(zipCalls) : zipCalls[i].files[1].kind = "lazy"

DirectNames == {100 + k : k \in 1..MaxDirect}

DirectPushed == {zipCalls[i].entries[1] : i \in {j \in 1..Len(zipCalls) : zipCalls[j].files[1].kind = "cursor"}}

\* ArchiveWriter::push_source_path(path, |_| true)
PushSourcePath ==
    /\ wpc = "accepting"
    /\ ~SourcePushed
    /\ folder # <<>>
    /\ zipCalls' = zipCalls \o encode_path(TRUE, folder)
    /\ expected' = expected \cup FolderEntries
    /\ UNCHANGED <<folder, archive, destFs, wpc>>

\* ArchiveWriter::push_source_path_non_solid(path, |_| true)
PushSourcePathNonSolid ==
    /\ wpc = "accepting"
    /\ ~SourcePushed
    /\ folder # <<>>
    /\ zipCalls' = zipCalls \o encode_path(FALSE, folder)
    /\ expected' = expected \cup FolderEntries
    /\ UNCHANGED <<folder, archive, destFs, wpc>>

\* sz.push_archive_entry(ArchiveEntry::from_path(&src, name), Some(Cursor::new(data)))
PushArchiveEntry ==
    /\ wpc = "accepting"
    /\ \E name \in DirectNames \ DirectPushed, n \in 0..2 :
          /\ zipCalls' = Append(zipCalls,
                [kind |-> "entry", entries |-> <<name>>,
                 files |-> <<CursorReader(ContentOf(name, n))>>])
          /\ expected' = expected \cup {[name |-> name, content |-> ContentOf(name, n)]}
    /\ UNCHANGED <<folder, archive, destFs, wpc>>

\* sz.finish()
Finish ==
    /\ wpc = "accepting"
    /\ archive' = FinishArchive(zipCalls, [files |-> <<>>, blocks |-> <<>>, open |-> TRUE])
    /\ wpc' = "finished"
    /\ UNCHANGED <<folder, zipCalls, expected, destFs>>

\* decompress_file(dest, decompress_dest) (decompress.rs 47-59, 233-253)
DecompressFile ==
    /\ wpc = "finished"
    /\ destFs' = for_each_entries(archive.files, archive.blocks, <<1, 0, 0>>, {})
    /\ wpc' = "extracted"
    /\ UNCHANGED <<folder, zipCalls, expected, archive>>

RECURSIVE FoldersOfLen(_)
FoldersOfLen(n) ==
    IF n = 0 THEN {<<>>}
    ELSE {Append(fs, MkFile(n, sz)) : fs \in FoldersOfLen(n - 1), sz \in FileSizes}

IdleSolid ==
    /\ folder = <<>>
    /\ zipCalls = <<>>
    /\ expected = {}
    /\ archive = NoArchive
    /\ destFs = {}
    /\ wpc = "accepting"

InitSolid ==
    /\ folder \in UNION {FoldersOfLen(n) : n \in 0..MaxFiles}
    /\ zipCalls = <<>>
    /\ expected = {}
    /\ archive = NoArchive
    /\ destFs = {}
    /\ wpc = "accepting"
    /\ IdleFdec /\ IdleFenc /\ IdleEnc /\ IdleAes /\ IdleAdd /\ IdleAdec /\ IdleCw /\ IdleFn /\ IdleStrip

NextSolid ==
    \/ PushSourcePath /\ UNCHANGED <<fdecVars, fencVars, encVars, aesVars, addVars, adecVars, cwVars, fnVars, stripVars>>
    \/ PushSourcePathNonSolid /\ UNCHANGED <<fdecVars, fencVars, encVars, aesVars, addVars, adecVars, cwVars, fnVars, stripVars>>
    \/ PushArchiveEntry /\ UNCHANGED <<fdecVars, fencVars, encVars, aesVars, addVars, adecVars, cwVars, fnVars, stripVars>>
    \/ Finish /\ UNCHANGED <<fdecVars, fencVars, encVars, aesVars, addVars, adecVars, cwVars, fnVars, stripVars>>
    \/ DecompressFile /\ UNCHANGED <<fdecVars, fencVars, encVars, aesVars, addVars, adecVars, cwVars, fnVars, stripVars>>

SpecSolid == InitSolid /\ [][NextSolid]_vars

(***************************************************************************)
(* Claims about solid grouping and the archive round trip.                 *)
(***************************************************************************)
FileSize(name) ==
    LET i == CHOOSE j \in 1..Len(folder) : folder[j].name = name
    IN  folder[i].size

RECURSIVE Sum64(_, _)
Sum64(names, i) ==
    IF i > Len(names) THEN Zero64
    ELSE Add64(FileSize(names[i]), Sum64(names, i + 1))

SolidCalls == {i \in 1..Len(zipCalls) : zipCalls[i].files[1].kind = "lazy"}

C2_SolidBound ==
    \A i \in SolidCalls :
        Len(zipCalls[i].entries) # 1 =>
            ~Gt64(Sum64(zipCalls[i].entries, 1), CapMinusOne)

\* C2 witness: a multi-entry group filled to exactly 4 GiB - 1 that was
\* flushed because the next file would not fit.
C2_Witness ==
    \E i \in SolidCalls :
        /\ Len(zipCalls[i].entries) >= 2
        /\ Sum64(zipCalls[i].entries, 1) = CapMinusOne
        /\ i < Len(zipCalls)

\* C3 as stated: every entry of size >= 4 GiB - 1 is alone in its block.
C3_SingletonFromCapMinusOne ==
    \A i \in SolidCalls : \A k \in 1..Len(zipCalls[i].entries) :
        Ge64(FileSize(zipCalls[i].entries[k]), CapMinusOne) =>
            Len(zipCalls[i].entries) = 1

\* C3 amended: every entry of size >= 4 GiB (MAX_BLOCK_SIZE) is alone in
\* its block.
C3_SingletonFromMaxBlockSize ==
    \A i \in SolidCalls : \A k \in 1..Len(zipCalls[i].entries) :
        Ge64(FileSize(zipCalls[i].entries[k]), U64(Limb, 0)) =>
            Len(zipCalls[i].entries) = 1

\* C3 witness: a 4 GiB file pushed in solid mode between zero-size files.
C3_Witness ==
    /\ Len(folder) = 3
    /\ folder[1].size = Zero64 /\ folder[2].size = U64(Limb, 0) /\ folder[3].size = Zero64
    /\ \E i \in SolidCalls : zipCalls[i].kind = "entry" /\ zipCalls[i].entries = <<2>>
    /\ \E i \in SolidCalls : zipCalls[i].kind = "entries"

(***************************************************************************)
(* Skippable-frame streams (codec/brotli.rs, codec/lz4.rs).                *)
(*                                                                         *)
(* Bytes are integers 0..255.  The codec-native stream of the compression  *)
(* library is modelled as a self-delimiting record: one length byte, the   *)
(* plaintext bytes, one end mark.  It is not the identity, it is not empty *)
(* for an empty plaintext, and a decoder knows where it ends.              *)
(***************************************************************************)
MaxFrames == 3

MaxPlain == 2

BufCap == 3

MaxBuf == 2

Min(a, b) == IF a < b THEN a ELSE b

Take(s, n) == SubSeq(s, 1, Min(n, Len(s)))

Drop(s, n) == SubSeq(s, Min(n, Len(s)) + 1, Len(s))

LE16(n) == <<n % 256, (n \div 256) % 256>>

LE32(n) == <<n % 256, (n \div 256) % 256, (n \div (256 * 256)) % 256,
             (n \div (256 * 256 * 256)) % 256>>

FromLE(b) == IF Len(b) = 2 THEN b[1] + 256 * b[2]
             ELSE b[1] + 256 * b[2] + 256 * 256 * b[3] + 256 * 256 * 256 * b[4]

SKIPPABLE_FRAME_MAGIC == FromLE(<<80, 42, 77, 24>>)

\* u32::from_le_bytes(b) == n, compared bytewise (from_le_bytes is a bijection).
IsLE(b, n) == b = (IF Len(b) = 2 THEN LE16(n) ELSE LE32(n))

BROTLI_MAGIC == FromLE(<<66, 82>>)

EndMark == 255

Compress(p) == <<Len(p)>> \o p \o <<EndMark>>

SkipSize_four(codec) == 4

SkipSize(codec) == IF codec = "brotli" THEN 8 ELSE 4

HeaderLen(codec) == IF codec = "brotli" THEN 16 ELSE 12

HINT_UNIT_SIZE == 256 * 256

U16_MAX == 256 * 256 - 1

DivCeil(a, b) == (a + b - 1) \div b

\* a.div_ceil(b) for a in limbs and b a divisor of the limb.
DivCeil64(a, b) == (a[1] * (Limb \div b)) + DivCeil(a[2], b)

\* The hint field: uncompressed_bytes.div_ceil(HINT_UNIT_SIZE), at most u16::MAX.
hint_value_floor(uncompressed_bytes) ==
    Min(uncompressed_bytes[1], U16_MAX)

hint_value(uncompressed_bytes) ==
    LET h == DivCeil64(uncompressed_bytes, HINT_UNIT_SIZE)
    IN IF h > U16_MAX THEN U16_MAX ELSE h

\* build_frame_bytes: nothing for empty data, else header and data;
\* uncompressed_bytes is a usize in limbs.
build_frame_bytes(codec, compressed_data, uncompressed_bytes) ==
    IF compressed_data = <<>> THEN <<>>
    ELSE
      LE32(SKIPPABLE_FRAME_MAGIC) \o LE32(SkipSize(codec))
        \o LE32(Len(compressed_data))
        \o (IF codec = "brotli"
            THEN LE16(BROTLI_MAGIC)
                   \o LE16(hint_value(uncompressed_bytes))
            ELSE <<>>)
        \o compressed_data

\* One skippable frame around the codec stream of plaintext p.
Frame(codec, p) == build_frame_bytes(codec, Compress(p), U64OfInt(Len(p)))

RECURSIVE FramesBytes(_, _)
FramesBytes(codec, ps) ==
    IF ps = <<>> THEN <<>>
    ELSE Frame(codec, Head(ps)) \o FramesBytes(codec, Tail(ps))

RECURSIVE PlainOf(_)
PlainOf(ps) == IF ps = <<>> THEN <<>> ELSE Head(ps) \o PlainOf(Tail(ps))

(***************************************************************************)
(* The source reader.  A read of req bytes returns at most lim bytes: the  *)
(* source's short-read behaviour.                                          *)
(***************************************************************************)
SrcAvail(d) == Len(d.src) - d.pos

SrcRead(d, req, lim) == SubSeq(d.src, d.pos + 1, d.pos + Min(Min(req, lim), SrcAvail(d)))

\* read_exact on the source: all n bytes, or UnexpectedEof with the rest consumed.
ReadExact(d, n) ==
    IF SrcAvail(d) >= n
    THEN [ok |-> TRUE, bytes |-> SubSeq(d.src, d.pos + 1, d.pos + n),
          d |-> [d EXCEPT !.pos = @ + n]]
    ELSE [ok |-> FALSE, bytes |-> <<>>, d |-> [d EXCEPT !.pos = Len(d.src)]]

(***************************************************************************)
(* InnerReader::poll_read: what the BufReader gets for a request of req.   *)
(* Returns <<decoder, bytes>>.                                             *)
(***************************************************************************)
InnerRead(d, req) ==
    CASE d.rk = "Empty" -> <<d, <<>>>>
      [] d.rk = "Standard" ->
           IF ~d.hfin /\ d.hb # <<>>
           THEN <<[d EXCEPT !.hb = Drop(@, req), !.fed = @ \o Take(d.hb, req)],
                  Take(d.hb, req)>>
           ELSE LET got == SrcRead(d, req, d.chunk) IN
                <<[d EXCEPT !.hfin = TRUE, !.pos = @ + Len(got), !.fed = @ \o got],
                  got>>
      [] OTHER ->
           IF d.ffin \/ d.rem = 0
           THEN <<d, <<>>>>
           ELSE LET got == SrcRead(d, Min(d.rem, req), d.chunk) IN
                IF got = <<>>
                THEN <<[d EXCEPT !.ffin = TRUE], <<>>>>
                ELSE <<[d EXCEPT !.rem = @ - Len(got), !.pos = @ + Len(got),
                                 !.ffin = (d.rem = Len(got))], got>>

\* BufReader::poll_fill_buf: refill from the InnerReader only when empty.
FillBuf(d) ==
    IF d.bufr # <<>> THEN d
    ELSE LET r == InnerRead(d, BufCap) IN [r[1] EXCEPT !.bufr = r[2]]

(***************************************************************************)
(* The library decoder's poll_read over the BufReader: decode until the    *)
(* caller's n bytes are full or the stream is done.  An end of input       *)
(* inside the stream, or a wrong end mark, is an error.                    *)
(***************************************************************************)
\* One step of the decoder on a filled buffer f: [d, out, ok, more].
CodecStep(f, n, acc) ==
    CASE f.bufr = <<>> -> [d |-> f, out |-> <<>>, ok |-> FALSE, more |-> FALSE]
      [] f.bufr # <<>> /\ f.cst = "len" ->
           [d |-> [f EXCEPT !.bufr = Tail(@), !.cleft = Head(f.bufr),
                            !.cst = IF Head(f.bufr) = 0 THEN "end" ELSE "data"],
            out |-> acc, ok |-> TRUE, more |-> TRUE]
      [] f.bufr # <<>> /\ f.cst = "data" ->
           LET m == Min(Min(Len(f.bufr), f.cleft), n - Len(acc)) IN
           [d |-> [f EXCEPT !.bufr = Drop(@, m), !.cleft = @ - m,
                            !.cst = IF f.cleft = m THEN "end" ELSE "data"],
            out |-> acc \o Take(f.bufr, m), ok |-> TRUE,
            more |-> Len(acc) + m < n]
      [] OTHER ->
           IF Head(f.bufr) = EndMark
           THEN [d |-> [f EXCEPT !.bufr = Tail(@), !.cst = "done"],
                 out |-> acc, ok |-> TRUE, more |-> FALSE]
           ELSE [d |-> f, out |-> <<>>, ok |-> FALSE, more |-> FALSE]

RECURSIVE CodecRead(_, _, _)
CodecLoop(s, n) ==
    IF s.more THEN CodecRead(s.d, n, s.out)
    ELSE [d |-> s.d, out |-> s.out, ok |-> s.ok]

CodecRead(d, n, acc) ==
    IF d.cst = "done" THEN [d |-> d, out |-> acc, ok |-> TRUE]
    ELSE CodecLoop(CodecStep(FillBuf(d), n, acc), n)

(***************************************************************************)
(* InnerReader::read_next_frame_header.  Reads the source directly.        *)
(* Returns [res, d] with res "true", "false" or "err".                     *)
(***************************************************************************)
HeaderAttempt(d0) ==
    [d0 EXCEPT !.hlog = Append(@, [cst |-> d0.cst, rem |-> d0.rem, pos |-> d0.pos])]

FrameFinished_any(d) == TRUE

FrameFinished(d) == d.ffin

read_next_frame_header(d0) ==
    IF d0.rk # "Skippable" \/ ~FrameFinished(d0) THEN [res |-> "false", d |-> d0]
    ELSE
      LET d == HeaderAttempt(d0)
          r1 == ReadExact(d, 4)
          r2 == ReadExact(r1.d, 4)
          r3 == ReadExact(r2.d, 4)
          r4 == ReadExact(r3.d, 2)
          r5 == ReadExact(r4.d, 2)
          last == IF d.codec = "brotli" THEN r5.d ELSE r3.d
      IN
      IF ~r1.ok THEN [res |-> "false", d |-> r1.d]
      ELSE IF ~IsLE(r1.bytes, SKIPPABLE_FRAME_MAGIC) THEN [res |-> "false", d |-> r1.d]
      ELSE IF ~r2.ok THEN [res |-> "err", d |-> r2.d]
      ELSE IF ~IsLE(r2.bytes, SkipSize(d.codec)) THEN [res |-> "false", d |-> r2.d]
      ELSE IF ~r3.ok THEN [res |-> "err", d |-> r3.d]
      ELSE IF d.codec = "brotli" /\ ~r4.ok THEN [res |-> "err", d |-> r4.d]
      ELSE IF d.codec = "brotli" /\ ~IsLE(r4.bytes, BROTLI_MAGIC)
           THEN [res |-> "false", d |-> r4.d]
      ELSE IF d.codec = "brotli" /\ ~r5.ok THEN [res |-> "err", d |-> r5.d]
      ELSE [res |-> "true",
            d |-> [last EXCEPT !.rem = FromLE(r3.bytes), !.ffin = FALSE]]

(***************************************************************************)
(* BrotliDecoder::new / Lz4Decoder::new: one read of the header array,     *)
(* which returns at most `first` bytes.                                    *)
(***************************************************************************)
FreshCodec(d) == [d EXCEPT !.bufr = <<>>, !.cst = "len", !.cleft = 0]

\* header[..header_read].to_vec()
PeekedHeader_whole(header, header_read) == header

PeekedHeader(header, header_read) == SubSeq(header, 1, header_read)

DecoderNew(codec, src, first, chunk) ==
    LET d0 == [st |-> "open", codec |-> codec, src |-> src, chunk |-> chunk,
               pos |-> 0, inner |-> TRUE, rk |-> "Empty", hb |-> <<>>,
               hfin |-> FALSE, rem |-> 0, ffin |-> FALSE, hlog |-> <<>>, fed |-> <<>>,
               bufr |-> <<>>, cst |-> "len", cleft |-> 0, late |-> 0]
        got == SrcRead(d0, HeaderLen(codec), first)
        header == got \o [i \in 1..(HeaderLen(codec) - Len(got)) |-> 0]
        d1 == [d0 EXCEPT !.pos = Len(got)]
        failed == [d1 EXCEPT !.st = "failed", !.inner = FALSE]
    IN
    IF Len(got) < 4 THEN failed
    ELSE IF IsLE(SubSeq(header, 1, 4), SKIPPABLE_FRAME_MAGIC)
              /\ Len(got) >= HeaderLen(codec)
    THEN IF ~IsLE(SubSeq(header, 5, 8), SkipSize(codec)) THEN failed
         ELSE IF codec = "brotli" /\ ~IsLE(SubSeq(header, 13, 14), BROTLI_MAGIC)
         THEN failed
         ELSE [d1 EXCEPT !.rk = "Skippable", !.rem = FromLE(SubSeq(header, 9, 12))]
    ELSE [d1 EXCEPT !.rk = "Standard", !.hb = PeekedHeader(header, Len(got))]

(***************************************************************************)
(* BrotliDecoder::poll_read / Lz4Decoder::poll_read with a caller buffer   *)
(* of n bytes.  Returns [d, out, ret].                                     *)
(***************************************************************************)
NextFrameResult(h, n) ==
    LET r == CodecRead(FreshCodec(h.d), n, <<>>) IN
    [d |-> r.d, out |-> r.out,
     ret |-> IF ~r.ok THEN "err" ELSE IF r.out = <<>> THEN "eof" ELSE "data"]

MaxLate == 2

\* The else branch of `if let Some(inner) = &mut self.inner`.
Terminated_never(d) == FALSE

Terminated(d) == ~d.inner

\* History: late counts the calls made after inner became None.
LateRead(d) == [d EXCEPT !.late = Min(@ + 1, MaxLate)]

poll_read(d, n) ==
    IF Terminated(d) THEN [d |-> LateRead(d), out |-> <<>>, ret |-> "eof"]
    ELSE
      LET r == CodecRead(d, n, <<>>) IN
      IF ~r.ok THEN [d |-> r.d, out |-> <<>>, ret |-> "err"]
      ELSE IF r.out # <<>> THEN [d |-> r.d, out |-> r.out, ret |-> "data"]
      ELSE
        LET h == read_next_frame_header(r.d) IN
        CASE h.res = "err" -> [d |-> h.d, out |-> <<>>, ret |-> "err"]
          [] h.res = "true" -> NextFrameResult(h, n)
          [] OTHER -> [d |-> [h.d EXCEPT !.inner = FALSE], out |-> <<>>, ret |-> "eof"]

(***************************************************************************)
(* Specification of the frame decoders.  The stream and the source's read  *)
(* sizes are fixed at the start; the caller constructs the decoder and     *)
(* then polls it with buffers of any size 1..MaxBuf.                       *)
(***************************************************************************)
MaxPad == 1

MaxCut == 2

FramePlain(i, len) == [j \in 1..len |-> 10 * i + j]

FrameLists ==
    UNION {{[i \in 1..k |-> FramePlain(i, lens[i])] : lens \in [1..k -> 0..MaxPlain]}
           : k \in 0..MaxFrames}

FirstReads == {2, 7, HeaderLen("brotli")}

Chunks == {1, 2, BufCap}

\* A frame whose comp_size covers pad bytes beyond the codec stream.
PaddedFrame(codec, p, pad) ==
    build_frame_bytes(codec, Compress(p) \o [j \in 1..pad |-> 0], U64OfInt(Len(p)))

RECURSIVE PaddedFrames(_, _, _)
PaddedFrames(codec, ps, pad) ==
    IF ps = <<>> THEN <<>>
    ELSE PaddedFrame(codec, Head(ps), pad) \o PaddedFrames(codec, Tail(ps), pad)

\* The source: the frames (or the plain codec stream) without its last
\* cut bytes.
SourceBytes(cfg) ==
    LET whole == IF cfg.kind = "framed"
                 THEN PaddedFrames(cfg.codec, cfg.frames, cfg.pad)
                 ELSE Compress(PlainOf(cfg.frames))
    IN Take(whole, Len(whole) - Min(cfg.cut, Len(whole)))

InitFrameDec ==
    /\ fcfg \in [codec : {"brotli", "lz4"}, kind : {"framed", "plain"},
                 frames : FrameLists, first : FirstReads, chunk : Chunks,
                 pad : 0..MaxPad, cut : 0..MaxCut]
    /\ fcfg.kind = "plain" => Len(fcfg.frames) = 1 /\ fcfg.pad = 0
    /\ fd = NoDecoder
    /\ fout = <<>>
    /\ fret = "none"
    /\ IdleSolid /\ IdleFenc /\ IdleEnc /\ IdleAes /\ IdleAdd /\ IdleAdec /\ IdleCw /\ IdleFn /\ IdleStrip

FdNew ==
    /\ fd.st = "none"
    /\ fd' = DecoderNew(fcfg.codec, SourceBytes(fcfg), fcfg.first, fcfg.chunk)
    /\ fret' = IF fd'.st = "failed" THEN "err" ELSE "built"
    /\ UNCHANGED <<fcfg, fout>>

FdPollRead ==
    /\ fd.st = "open"
    /\ fret # "err"
    /\ \E n \in 1..MaxBuf :
         LET r == poll_read(fd, n) IN
         /\ fd' = r.d
         /\ fout' = fout \o r.out
         /\ fret' = r.ret
    /\ UNCHANGED fcfg

NextFrameDec ==
    \/ FdNew /\ UNCHANGED <<solidVars, fencVars, encVars, aesVars, addVars, adecVars, cwVars, fnVars, stripVars>>
    \/ FdPollRead /\ UNCHANGED <<solidVars, fencVars, encVars, aesVars, addVars, adecVars, cwVars, fnVars, stripVars>>

SpecFrameDec == InitFrameDec /\ [][NextFrameDec]_vars

(***************************************************************************)
(* Claims about the frame decoders.                                        *)
(***************************************************************************)
\* The construction read returned a whole frame header (a Cursor or a file
\* does; a shorter first read selects the Standard reader).
WholeHeaderRead == fcfg.first >= HeaderLen(fcfg.codec)

\* Complete frames, each payload exactly its codec stream.
CompleteFramesOnly == fcfg.pad = 0 /\ fcfg.cut = 0

FramedStream == fcfg.kind = "framed" /\ WholeHeaderRead /\ CompleteFramesOnly

\* C5: reading the concatenation of two streams of complete frames gives
\* the plaintext of the first, then the plaintext of the second, and only
\* then end-of-stream, without an error.
C5_Concatenation ==
    (FramedStream /\ Len(fcfg.frames) >= 2) =>
        /\ fret # "err"
        /\ fret = "eof" =>
             \A a \in 1..(Len(fcfg.frames) - 1) :
                 fout = PlainOf(SubSeq(fcfg.frames, 1, a))
                          \o PlainOf(SubSeq(fcfg.frames, a + 1, Len(fcfg.frames)))

\* Streams as the framed encoders emit them: every frame before the last
\* carries at least one plaintext byte.
OnlyLastFrameMayBeEmpty ==
    \A i \in 1..(Len(fcfg.frames) - 1) : fcfg.frames[i] # <<>>

\* C6 as stated: a framed stream cut after any k complete frames,
\* 0 <= k <= n, decodes to the plaintext of those k frames followed by
\* end-of-stream, with no error.
C6_CutAfterAnyK ==
    (FramedStream /\ OnlyLastFrameMayBeEmpty) =>
        /\ fret # "err"
        /\ fret = "eof" => fout = PlainOf(fcfg.frames)

\* The same for 1 <= k <= n only: with k = 0 the stream is empty and
\* construction fails.
C6_CutAfterAtLeastOne ==
    (FramedStream /\ OnlyLastFrameMayBeEmpty /\ Len(fcfg.frames) >= 1) =>
        /\ fret # "err"
        /\ fret = "eof" => fout = PlainOf(fcfg.frames)

C6_Witness ==
    /\ FramedStream /\ OnlyLastFrameMayBeEmpty
    /\ Len(fcfg.frames) = 2 /\ fcfg.chunk = 1
    /\ fret = "eof" /\ ~fd.inner
    /\ fout = PlainOf(fcfg.frames) /\ Len(fout) >= 3

(***************************************************************************)
(* Framed encoder (BrotliEncoder / Lz4Encoder, InnerWriter::Framed).       *)
(*                                                                         *)
(* The sink's behaviour during one call is sb = [cap, stall, budget]: a    *)
(* write accepts at most cap bytes; unless stall is "never", the sink      *)
(* stops after budget accepted writes and answers Ready(Ok(0)) ("zero")    *)
(* or Pending ("pending").  The per-frame compressor writes to a Cursor.   *)
(***************************************************************************)
MaxInput == 3

MaxWrite == 2

MaxFrameSize == 2

MaxBudget == 1

SinkBehaviours ==
    [cap : {1, HeaderLen("brotli") + MaxFrameSize + 2},
     stall : {"never", "zero", "pending"}, budget : 0..MaxBudget]

SinkStalls(sb, used) == sb.stall # "never" /\ used >= sb.budget

Front(e) == Head(e.pending)

\* The sink accepted w bytes of the front frame from pending_offset.
WriteFront_fromStart(e, w) ==
    [e EXCEPT !.sink = @ \o SubSeq(Front(e), 1, w),
              !.off = IF e.off + w >= Len(Front(e)) THEN 0 ELSE e.off + w,
              !.pending = IF e.off + w >= Len(Front(e)) THEN Tail(@) ELSE @]

WriteFront(e, w) ==
    [e EXCEPT !.sink = @ \o SubSeq(Front(e), e.off + 1, e.off + w),
              !.off = IF e.off + w >= Len(Front(e)) THEN 0 ELSE e.off + w,
              !.pending = IF e.off + w >= Len(Front(e)) THEN Tail(@) ELSE @]

\* Close the per-frame compressor, queue its frame, start a new compressor.
FinalizeFrame(e) ==
    LET frame == build_frame_bytes(e.codec, Compress(e.comp), U64OfInt(e.u)) IN
    [e EXCEPT !.pending = IF frame = <<>> THEN @ ELSE Append(@, frame),
              !.produced = Append(@, e.comp),
              !.comp = <<>>, !.compSome = TRUE, !.u = 0]

\* The write loop of poll_flush and poll_close.  Returns [e, done].
RECURSIVE Drain(_, _, _)
Drain(e, sb, used) ==
    IF e.pending = <<>> THEN [e |-> e, done |-> TRUE]
    ELSE IF e.off >= Len(Front(e))
    THEN Drain([e EXCEPT !.pending = Tail(@), !.off = 0], sb, used)
    ELSE IF SinkStalls(sb, used) THEN [e |-> e, done |-> FALSE]
    ELSE Drain(WriteFront(e, Min(sb.cap, Len(Front(e)) - e.off)), sb, used + 1)

\* poll_write, the part before the caller's bytes are looked at: one write
\* attempt for the front pending frame.  Returns [e, zero].
WriteTop(e, sb) ==
    IF e.pending # <<>> /\ e.off < Len(Front(e))
    THEN IF SinkStalls(sb, 0)
         THEN [e |-> e, zero |-> sb.stall = "zero"]
         ELSE [e |-> WriteFront(e, Min(sb.cap, Len(Front(e)) - e.off)), zero |-> FALSE]
    ELSE [e |-> e, zero |-> FALSE]

\* poll_write(buf) where the per-frame compressor accepts n bytes.
\* Returns [e, ret, n].
enc_poll_write(e0, buf, sb, n) ==
    LET t == WriteTop(e0, sb)
        e == t.e
        to_write == Min(Len(buf), e.frame_size - e.u)
    IN
    IF t.zero THEN [e |-> e, ret |-> "w_zero", n |-> 0]
    ELSE IF buf = <<>> THEN [e |-> e, ret |-> "w_zero", n |-> 0]
    ELSE IF ~e.compSome THEN [e |-> e, ret |-> "panic", n |-> 0]
    ELSE IF to_write = 0 THEN [e |-> FinalizeFrame(e), ret |-> "w_pending", n |-> 0]
    ELSE
      LET k == Min(n, to_write)
          e1 == [e EXCEPT !.comp = @ \o SubSeq(buf, 1, k), !.u = @ + k,
                          !.accepted = @ + k]
      IN [e |-> IF e1.u >= e1.frame_size THEN FinalizeFrame(e1) ELSE e1,
          ret |-> "w_ok", n |-> k]

\* poll_flush (fin = FALSE) and poll_close (fin = TRUE); sinkReady is the
\* answer of the sink's own poll_flush / poll_close.
enc_poll_finish(e0, sb, sinkReady, fin) ==
    IF e0.u > 0 /\ ~e0.compSome THEN [e |-> e0, ret |-> "panic"]
    ELSE
      LET e1 == IF e0.u > 0 THEN FinalizeFrame(e0) ELSE e0
          r == Drain(e1, sb, 0)
      IN
      IF ~r.done \/ ~sinkReady
      THEN [e |-> r.e, ret |-> IF fin THEN "c_pending" ELSE "f_pending"]
      ELSE [e |-> [r.e EXCEPT !.closed = @ \/ fin],
            ret |-> IF fin THEN "c_ok" ELSE "f_ok"]

RECURSIVE Flatten(_)
Flatten(frames) == IF frames = <<>> THEN <<>> ELSE Head(frames) \o Flatten(Tail(frames))

\* Lz4Encoder::finish in framed mode: close the frame compressor whatever
\* it holds, queue its frame, write_all every queued frame from its first
\* byte, give the writer back.  The encoder is consumed.
lz4_finish(e0) ==
    LET e1 == IF e0.compSome THEN FinalizeFrame(e0) ELSE e0 IN
    [e1 EXCEPT !.st = "finished", !.compSome = FALSE,
               !.sink = @ \o Flatten(e1.pending), !.pending = <<>>]

(***************************************************************************)
(* Specification of the framed encoders: any sequence of poll_write,       *)
(* poll_flush and poll_close over any sink behaviour, and for Lz4 a final  *)
(* finish().  The caller writes the bytes 1, 2, ... of its input; after    *)
(* Ready(Ok(n)) it continues n bytes further.                              *)
(***************************************************************************)
EncoderNew(codec, frame_size) ==
    [st |-> "open", codec |-> codec, frame_size |-> frame_size,
     compSome |-> TRUE, comp |-> <<>>, u |-> 0, pending |-> <<>>, off |-> 0,
     sink |-> <<>>, produced |-> <<>>, accepted |-> 0, closed |-> FALSE]

InitFrameEnc ==
    /\ fe \in {EncoderNew(c, fs) : c \in {"brotli", "lz4"}, fs \in 1..MaxFrameSize}
    /\ feret = "none"
    /\ IdleSolid /\ IdleFdec /\ IdleEnc /\ IdleAes /\ IdleAdd /\ IdleAdec /\ IdleCw /\ IdleFn /\ IdleStrip

CallerBuf(e, len) == [j \in 1..len |-> e.accepted + j]

FePollWrite ==
    /\ fe.st = "open"
    /\ feret # "panic"
    /\ \E len \in 0..MaxWrite, sb \in SinkBehaviours, n \in 1..MaxWrite :
         /\ fe.accepted + len <= MaxInput
         /\ LET r == enc_poll_write(fe, CallerBuf(fe, len), sb, n) IN
            /\ fe' = r.e
            /\ feret' = r.ret

FePollFlush ==
    /\ fe.st = "open"
    /\ feret # "panic"
    /\ \E sb \in SinkBehaviours, sinkReady \in BOOLEAN :
         LET r == enc_poll_finish(fe, sb, sinkReady, FALSE) IN
         /\ fe' = r.e
         /\ feret' = r.ret

FePollClose ==
    /\ fe.st = "open"
    /\ feret # "panic"
    /\ \E sb \in SinkBehaviours, sinkReady \in BOOLEAN :
         LET r == enc_poll_finish(fe, sb, sinkReady, TRUE) IN
         /\ fe' = r.e
         /\ feret' = r.ret

FeFinish ==
    /\ fe.st = "open"
    /\ fe.codec = "lz4"
    /\ feret # "panic"
    /\ fe' = lz4_finish(fe)
    /\ feret' = "finished"

NextFrameEnc ==
    \/ FePollWrite /\ UNCHANGED <<solidVars, fdecVars, encVars, aesVars, addVars, adecVars, cwVars, fnVars, stripVars>>
    \/ FePollFlush /\ UNCHANGED <<solidVars, fdecVars, encVars, aesVars, addVars, adecVars, cwVars, fnVars, stripVars>>
    \/ FePollClose /\ UNCHANGED <<solidVars, fdecVars, encVars, aesVars, addVars, adecVars, cwVars, fnVars, stripVars>>
    \/ FeFinish /\ UNCHANGED <<solidVars, fdecVars, encVars, aesVars, addVars, adecVars, cwVars, fnVars, stripVars>>

SpecFrameEnc == InitFrameEnc /\ [][NextFrameEnc]_vars

(***************************************************************************)
(* Claims about the framed encoders.                                       *)
(***************************************************************************)
IsPrefix(a, b) == Len(a) <= Len(b) /\ a = SubSeq(b, 1, Len(a))

\* bytes is a sequence of complete frames: each a header whose comp_size
\* field is followed by exactly that many payload bytes.
RECURSIVE CompleteFrames(_, _)
CompleteFrames(codec, bytes) ==
    \/ bytes = <<>>
    \/ /\ Len(bytes) >= HeaderLen(codec)
       /\ IsLE(SubSeq(bytes, 1, 4), SKIPPABLE_FRAME_MAGIC)
       /\ IsLE(SubSeq(bytes, 5, 8), SkipSize(codec))
       /\ codec = "brotli" => IsLE(SubSeq(bytes, 13, 14), BROTLI_MAGIC)
       /\ LET comp_size == FromLE(SubSeq(bytes, 9, 12)) IN
          /\ Len(bytes) >= HeaderLen(codec) + comp_size
          /\ CompleteFrames(codec, Drop(bytes, HeaderLen(codec) + comp_size))

ProducedBytes == FramesBytes(fe.codec, fe.produced)

\* C7: in framed mode the sink always holds a prefix of the concatenation,
\* in production order, of complete frames; when poll_close has returned
\* Ready(Ok) the sink holds all of it and no frame is pending.
C7_SinkIsPrefixOfFrames ==
    fe.st = "open" =>
        /\ feret # "panic"
        /\ CompleteFrames(fe.codec, ProducedBytes)
        /\ IsPrefix(fe.sink, ProducedBytes)
        /\ feret = "c_ok" =>
             /\ fe.sink = ProducedBytes
             /\ fe.pending = <<>>
             /\ fe.u = 0
             /\ Len(PlainOf(fe.produced)) = fe.accepted

C7_Witness ==
    /\ fe.st = "open" /\ feret = "c_ok"
    /\ Len(fe.produced) >= 2
    /\ fe.accepted = MaxInput
    /\ fe.sink = ProducedBytes

(***************************************************************************)
(* The Encoder enum (encoder.rs).  The wrapped codec is abstract: it is    *)
(* open until it is finished, and finishing it sends its trailer (LZMA     *)
(* end marker, BCJ tail, LZ4 end mark, last frame, AES padding block)      *)
(* through the CountingWriter.  cw is what the CountingWriter has counted: *)
(* "d" for the bytes of a data write, "t" for a trailer.                   *)
(***************************************************************************)
MaxEncWrites == 2

Variants ==
    {"Copy", "Bcj", "Delta", "Lzma", "Lzma2", "Lzma2Mt", "Ppmd", "Brotli",
     "Bzip2", "Deflate", "Lz4", "Zstd", "Aes"}

\* Variants holding Option<Box<_>> whose finalization is writer.finish().
TakeFinish == {"Bcj", "Lzma2", "Lzma2Mt", "Ppmd", "Lz4"}

\* Variants holding Option<Box<_>> whose finalization is poll_close.
TakeClose == {"Lzma", "Bzip2", "Deflate", "Zstd"}

\* Copy and Delta wrap no codec that has a trailer.
HasTrailer(e) == e.variant \notin {"Copy", "Delta"}

EncNew(variant, mode) ==
    [variant |-> variant, mode |-> mode, slot |-> TRUE, open |-> TRUE,
     finishes |-> 0, cw |-> <<>>]

CodecWrite(e) == [e EXCEPT !.cw = Append(@, "d")]

\* Finish the wrapped codec; a codec that is already finished stays so.
CodecClose(e) ==
    IF e.open /\ HasTrailer(e)
    THEN [e EXCEPT !.open = FALSE, !.finishes = @ + 1, !.cw = Append(@, "t")]
    ELSE e

\* Lz4Encoder::finish: Standard only flushes the codec, Framed closes the
\* frame compressor and writes every pending frame.
Lz4Finish(e) == IF e.mode = "standard" THEN e ELSE CodecClose(e)

\* writer.finish() of the TakeFinish variants, after w.take().unwrap().
TakenFinish(e) ==
    LET t == [e EXCEPT !.slot = FALSE] IN
    IF e.variant = "Lz4" THEN Lz4Finish(t) ELSE CodecClose(t)

\* Encoder::poll_write; ready is the answer of an asynchronous inner close.
Encoder_poll_write(e, empty, ready) ==
    CASE e.variant \in TakeFinish ->
           IF ~e.slot THEN [e |-> e, ret |-> "panic"]
           ELSE IF empty THEN [e |-> TakenFinish(e), ret |-> "w_zero"]
           ELSE [e |-> CodecWrite(e), ret |-> "w_ok"]
      [] e.variant \in TakeClose ->
           IF ~e.slot THEN [e |-> e, ret |-> "panic"]
           ELSE IF empty
           THEN IF ready
                THEN [e |-> CodecClose([e EXCEPT !.slot = FALSE]), ret |-> "w_zero"]
                ELSE [e |-> [e EXCEPT !.slot = FALSE], ret |-> "w_pending"]
           ELSE [e |-> CodecWrite(e), ret |-> "w_ok"]
      [] e.variant = "Aes" ->
           IF empty THEN [e |-> CodecClose(e), ret |-> "w_zero"]
           ELSE IF ~e.open THEN [e |-> e, ret |-> "w_zero"]
           ELSE [e |-> CodecWrite(e), ret |-> "w_ok"]
      [] OTHER ->
           IF empty THEN [e |-> e, ret |-> "w_zero"]
           ELSE [e |-> CodecWrite(e), ret |-> "w_ok"]

Encoder_poll_flush(e, ready) ==
    IF e.variant \in TakeFinish \cup TakeClose /\ ~e.slot
    THEN [e |-> e, ret |-> "panic"]
    ELSE [e |-> e, ret |-> IF ready THEN "f_ok" ELSE "f_pending"]

Encoder_poll_close(e, ready) ==
    CASE e.variant \in TakeFinish ->
           IF ~e.slot THEN [e |-> e, ret |-> "panic"]
           ELSE [e |-> TakenFinish(e), ret |-> "c_ok"]
      [] e.variant \in TakeClose ->
           IF ~e.slot THEN [e |-> e, ret |-> "panic"]
           ELSE IF ready THEN [e |-> CodecClose(e), ret |-> "c_ok"]
           ELSE [e |-> e, ret |-> "c_pending"]
      [] e.variant = "Delta" -> [e |-> e, ret |-> "c_ok"]
      [] e.variant = "Aes" -> [e |-> CodecClose(e), ret |-> "c_ok"]
      [] OTHER ->
           IF ready THEN [e |-> CodecClose(e), ret |-> "c_ok"]
           ELSE [e |-> e, ret |-> "c_pending"]

InitEncoder ==
    /\ en \in {EncNew(v, m) : v \in Variants, m \in {"standard", "framed"}}
    /\ en.mode = "framed" => en.variant \in {"Brotli", "Lz4"}
    /\ enret = "none"
    /\ IdleSolid /\ IdleFdec /\ IdleFenc /\ IdleAes /\ IdleAdd /\ IdleAdec /\ IdleCw /\ IdleFn /\ IdleStrip

EnPollWrite ==
    /\ enret # "panic"
    /\ \E empty \in BOOLEAN, ready \in BOOLEAN :
         /\ ~empty => Len(en.cw) < MaxEncWrites
         /\ LET r == Encoder_poll_write(en, empty, ready) IN
            en' = r.e /\ enret' = r.ret

EnPollFlush ==
    /\ enret # "panic"
    /\ \E ready \in BOOLEAN :
         LET r == Encoder_poll_flush(en, ready) IN
         en' = r.e /\ enret' = r.ret

EnPollClose ==
    /\ enret # "panic"
    /\ \E ready \in BOOLEAN :
         LET r == Encoder_poll_close(en, ready) IN
         en' = r.e /\ enret' = r.ret

NextEncoder ==
    \/ EnPollWrite /\ UNCHANGED <<solidVars, fdecVars, fencVars, aesVars, addVars, adecVars, cwVars, fnVars, stripVars>>
    \/ EnPollFlush /\ UNCHANGED <<solidVars, fdecVars, fencVars, aesVars, addVars, adecVars, cwVars, fnVars, stripVars>>
    \/ EnPollClose /\ UNCHANGED <<solidVars, fdecVars, fencVars, aesVars, addVars, adecVars, cwVars, fnVars, stripVars>>

SpecEncoder == InitEncoder /\ [][NextEncoder]_vars

(***************************************************************************)
(* Claims about the Encoder enum.                                          *)
(***************************************************************************)
TrailerCounted == \E i \in 1..Len(en.cw) : en.cw[i] = "t"

\* C8: for every variant, when poll_close has returned Ready(Ok) the
\* wrapped codec is finished and its trailer has passed through the
\* CountingWriter.
C8_FinalizationPropagation ==
    (enret = "c_ok" /\ HasTrailer(en)) => (~en.open /\ TrailerCounted)

\* C9: no call unwraps an inner encoder that was already taken (no panic),
\* and the wrapped codec is finished at most once.
C9_ClosedTombstone ==
    /\ enret # "panic"
    /\ en.variant # "none" => en.finishes <= 1

(***************************************************************************)
(* Aes256Sha256Encoder (encryption/aes.rs).                                *)
(*                                                                         *)
(* AES-CBC is symbolic: the n-th block the encryptor produces is the 16    *)
(* bytes <<n, 1>> .. <<n, 16>>, and ae.blocks[n] is the plaintext block    *)
(* that went in.  A ciphertext block decrypts to that plaintext only when  *)
(* it follows the block it was chained to.  Plaintext byte i of the        *)
(* caller's input is the integer i; padding bytes are 0.                   *)
(***************************************************************************)
BLOCK == 16

MaxAesLen == 18

MaxAesWrite == 17

MaxAesBlocks == 3

SinkResponses == {"pending", "zero", "one", "all"}

Accepts(r, len) == IF r = "zero" THEN 0 ELSE IF r = "one" THEN Min(1, len) ELSE len

CipherBlock(n) == [j \in 1..BLOCK |-> <<n, j>>]

Zeros(n) == [j \in 1..n |-> 0]

AesEncoderNew ==
    [st |-> "open", buffer |-> <<>>, out_buf |-> <<>>, out_pos |-> 0,
     finished |-> FALSE, blocks |-> <<>>, sink |-> <<>>, sent |-> 0, pads |-> 0,
     retry |-> <<>>]

\* enc.encrypt_block_mut(block) followed by extending the output with it.
encrypt_block(a, block) ==
    [a EXCEPT !.blocks = Append(@, block),
              !.out_buf = @ \o CipherBlock(Len(a.blocks) + 1)]

\* One poll_write of out_buf[out_pos..] on the sink, answered by r.
SinkWrite(a, r) ==
    IF r = "pending" THEN [a |-> a, complete |-> FALSE, pending |-> TRUE]
    ELSE
      LET w == Accepts(r, Len(a.out_buf) - a.out_pos)
          pos == a.out_pos + w
          b == [a EXCEPT !.sink = @ \o SubSeq(a.out_buf, a.out_pos + 1, pos)]
      IN IF pos = Len(a.out_buf)
         THEN [a |-> [b EXCEPT !.out_buf = <<>>, !.out_pos = 0],
               complete |-> TRUE, pending |-> FALSE]
         ELSE [a |-> [b EXCEPT !.out_pos = pos], complete |-> FALSE, pending |-> FALSE]

\* Encrypt every complete block of data, keep the rest in buffer.
RECURSIVE EncryptChunks(_, _)
EncryptChunks(a, data) ==
    IF Len(data) < BLOCK THEN [a EXCEPT !.buffer = data]
    ELSE EncryptChunks(encrypt_block(a, Take(data, BLOCK)), Drop(data, BLOCK))

\* Zero-pad and encrypt a partial block left in buffer.
PadBuffer(a) ==
    IF a.buffer = <<>> THEN a
    ELSE encrypt_block([a EXCEPT !.buffer = <<>>, !.pads = @ + 1],
                       a.buffer \o Zeros(BLOCK - Len(a.buffer)))

\* poll_write(buf); r1 answers the write of leftover output, r2 the write
\* of the output this call produced.  Returns [a, ret].
aes_poll_write(a0, buf, r1, r2) ==
    LET t == IF a0.out_pos < Len(a0.out_buf) THEN SinkWrite(a0, r1)
             ELSE [a |-> a0, complete |-> TRUE, pending |-> FALSE]
        a == t.a
    IN
    IF ~t.complete THEN [a |-> a, ret |-> "pending"]
    ELSE IF a.finished /\ buf # <<>> THEN [a |-> a, ret |-> "w_zero"]
    ELSE IF buf = <<>>
    THEN LET p == PadBuffer([a EXCEPT !.finished = TRUE])
             u == IF p.out_pos < Len(p.out_buf) THEN SinkWrite(p, r2)
                  ELSE [a |-> p, complete |-> TRUE, pending |-> FALSE]
         IN [a |-> u.a, ret |-> IF u.complete THEN "fin_ok" ELSE "pending"]
    ELSE LET e == EncryptChunks([a EXCEPT !.buffer = <<>>], a.buffer \o buf)
             u == SinkWrite(e, r2)
             accepted(x) == [x EXCEPT !.sent = @ + Len(buf)]
         IN IF e.out_buf = <<>> THEN [a |-> accepted(e), ret |-> "w_ok"]
            ELSE IF u.pending THEN [a |-> u.a, ret |-> "pending"]
            ELSE [a |-> accepted(u.a), ret |-> "w_ok"]

\* poll_flush; ready is the answer of the sink's poll_flush.
aes_poll_flush(a0, r1, ready) ==
    LET p == IF a0.finished THEN PadBuffer(a0) ELSE a0
        u == IF p.out_pos < Len(p.out_buf) THEN SinkWrite(p, r1)
             ELSE [a |-> p, complete |-> TRUE, pending |-> FALSE]
    IN IF u.pending \/ ~ready THEN [a |-> u.a, ret |-> "pending"]
       ELSE [a |-> u.a, ret |-> "f_ok"]

\* poll_close; closeReady is the answer of the sink's poll_close.
aes_poll_close(a0, r1, ready, closeReady) ==
    LET f == aes_poll_flush([a0 EXCEPT !.finished = TRUE], r1, ready) IN
    IF f.ret = "pending" \/ ~closeReady THEN [a |-> f.a, ret |-> "pending"]
    ELSE [a |-> f.a, ret |-> "c_ok"]

(***************************************************************************)
(* Aes256Sha256Decoder reading ciphertext from a Cursor (one read returns  *)
(* all of it, it is shorter than the 512-byte input buffer): Cipher::update*)
(* decrypts the complete blocks, do_final fails if bytes are left over.    *)
(***************************************************************************)
DecryptBlock(bytes, blocks, i) ==
    LET blk == SubSeq(bytes, BLOCK * (i - 1) + 1, BLOCK * i)
        n == blk[1][1]
        chained == IF i = 1 THEN n = 1
                   ELSE SubSeq(bytes, BLOCK * (i - 2) + 1, BLOCK * (i - 1))
                          = CipherBlock(n - 1)
    IN IF blk = CipherBlock(n) /\ chained /\ n <= Len(blocks) THEN blocks[n]
       ELSE [j \in 1..BLOCK |-> <<"garbage", i, j>>]

RECURSIVE DecryptBlocks(_, _, _)
DecryptBlocks(bytes, blocks, i) ==
    IF i > Len(bytes) \div BLOCK THEN <<>>
    ELSE DecryptBlock(bytes, blocks, i) \o DecryptBlocks(bytes, blocks, i + 1)

DecodeFromCursor(bytes, blocks) ==
    [out |-> DecryptBlocks(bytes, blocks, 1), ok |-> Len(bytes) % BLOCK = 0]

(***************************************************************************)
(* Specification of the AES encoder: any sequence of writes (the empty     *)
(* write is the finalization), flushes and closes over any sink.  After    *)
(* Pending the caller repeats its call; after Ready(Ok(n)) it continues n  *)
(* bytes further.                                                          *)
(***************************************************************************)
InitAes ==
    /\ ae = AesEncoderNew
    /\ aret = "none"
    /\ IdleSolid /\ IdleFdec /\ IdleFenc /\ IdleEnc /\ IdleAdd /\ IdleAdec /\ IdleCw /\ IdleFn /\ IdleStrip

\* The call the caller must repeat: the one that returned Pending.
Retry(ret, call) == IF ret = "pending" THEN call ELSE <<>>

MayCall(call) == ae.retry = <<>> \/ ae.retry = call

AePollWrite ==
    \E len \in 0..MaxAesWrite, r1 \in SinkResponses, r2 \in SinkResponses :
        /\ MayCall(<<"write", len>>)
        /\ ae.sent + len <= MaxAesLen
        /\ Len(ae.blocks) < MaxAesBlocks
        /\ LET r == aes_poll_write(ae, [j \in 1..len |-> ae.sent + j], r1, r2) IN
           /\ ae' = [r.a EXCEPT !.retry = Retry(r.ret, <<"write", len>>)]
           /\ aret' = r.ret

AePollFlush ==
    \E r1 \in SinkResponses, ready \in BOOLEAN :
        /\ MayCall(<<"flush">>)
        /\ LET r == aes_poll_flush(ae, r1, ready) IN
           /\ ae' = [r.a EXCEPT !.retry = Retry(r.ret, <<"flush">>)]
           /\ aret' = r.ret

AePollClose ==
    \E r1 \in SinkResponses, ready \in BOOLEAN, closeReady \in BOOLEAN :
        /\ MayCall(<<"close">>)
        /\ LET r == aes_poll_close(ae, r1, ready, closeReady) IN
           /\ ae' = [r.a EXCEPT !.retry = Retry(r.ret, <<"close">>)]
           /\ aret' = r.ret

NextAes ==
    \/ AePollWrite /\ UNCHANGED <<solidVars, fdecVars, fencVars, encVars, addVars, adecVars, cwVars, fnVars, stripVars>>
    \/ AePollFlush /\ UNCHANGED <<solidVars, fdecVars, fencVars, encVars, addVars, adecVars, cwVars, fnVars, stripVars>>
    \/ AePollClose /\ UNCHANGED <<solidVars, fdecVars, fencVars, encVars, addVars, adecVars, cwVars, fnVars, stripVars>>

SpecAes == InitAes /\ [][NextAes]_vars

(***************************************************************************)
(* Claims about the AES encoder.                                           *)
(***************************************************************************)
PaddedPlaintext == [i \in 1..Len(ae.sink) |-> IF i <= ae.sent THEN i ELSE 0]

\* C10: after finalization (the empty write has returned Ok(0)) the sink
\* holds ceil(len/16)*16 ciphertext bytes which decrypt to the plaintext
\* followed only by zeros, and the padding block was emitted at most once.
C10_AesRoundTrip ==
    ae.st = "open" =>
        /\ ae.pads <= 1
        /\ aret = "fin_ok" =>
             /\ Len(ae.sink) = DivCeil(ae.sent, BLOCK) * BLOCK
             /\ DecodeFromCursor(ae.sink, ae.blocks).ok
             /\ DecodeFromCursor(ae.sink, ae.blocks).out = PaddedPlaintext

\* The calls encode_path made, and the positions at which a path was pushed.
PathCalls == {i \in 1..Len(zipCalls) : zipCalls[i].files[1].kind = "lazy"}

PushedAt(name) ==
    {p \in UNION {{<<i, j>> : j \in 1..Len(zipCalls[i].entries)} : i \in PathCalls} :
        zipCalls[p[1]].entries[p[2]] = name}

\* C35: in solid mode every collected file is pushed exactly once, alone
\* through push_archive_entry or in exactly one push_archive_entries group;
\* no pushed group is empty, and in every group the entries and the readers
\* have the same length and the same order.
C35_EachFilePushedOnce ==
    SourcePushed =>
        /\ \A k \in 1..Len(folder) : Cardinality(PushedAt(folder[k].name)) = 1
        /\ \A i \in PathCalls :
              /\ Len(zipCalls[i].entries) >= 1
              /\ zipCalls[i].kind = "entry" => Len(zipCalls[i].entries) = 1
              /\ Len(zipCalls[i].files) = Len(zipCalls[i].entries)
              /\ \A j \in 1..Len(zipCalls[i].entries) :
                    zipCalls[i].files[j] = LazyReader(zipCalls[i].entries[j])

\* A solid push that made a group of two and a singleton call.
C35_Witness ==
    /\ SourcePushed
    /\ \E i \in PathCalls :
          zipCalls[i].kind = "entries" /\ Len(zipCalls[i].entries) >= 2
    /\ \E i \in PathCalls : zipCalls[i].kind = "entry"

\* What the single read of the constructor returned.
HeaderRead == Min(fn.first, Min(Len(fn.src), HeaderLen(fn.codec)))

MagicMatches == HeaderRead >= 4 /\ SubSeq(fn.src, 1, 4) = <<80, 42, 77, 24>>

BadSkipSize ==
    SubSeq(fn.src, 5, 8) # (IF fn.codec = "brotli" THEN <<8, 0, 0, 0>> ELSE <<4, 0, 0, 0>>)

BadMarker == fn.codec = "brotli" /\ SubSeq(fn.src, 13, 14) # <<66, 82>>

\* C34: construction fails, and does not fall back to standard mode, when
\* the magic matches, a full header was read and skip_size is not 8 (Brotli)
\* / 4 (Lz4) or the Brotli "BR" marker is wrong; it also fails when fewer
\* than 4 bytes could be read.
C34_MalformedHeaderRejected ==
    fn.name = "decoder_new" =>
        /\ (MagicMatches /\ HeaderRead >= HeaderLen(fn.codec)
               /\ (BadSkipSize \/ BadMarker)) => fnret.res = "err"
        /\ HeaderRead < 4 => fnret.res = "err"

\* A Brotli header with the right magic and skip_size but a wrong marker.
C34_Witness ==
    /\ fn.name = "decoder_new" /\ fn.codec = "brotli"
    /\ MagicMatches /\ HeaderRead >= HeaderLen(fn.codec)
    /\ ~BadSkipSize /\ BadMarker
    /\ fnret.res = "err"

\* C33: once a Brotli or Lz4 decoder has terminated (inner = None), every
\* later poll_read returns Ok(0), delivers nothing and reads nothing from the
\* source: neither the position nor the header attempts change.
C33_TerminatedStaysAtEof ==
    [][(fd.st = "open" /\ ~fd.inner) =>
           /\ fret' = "eof"
           /\ fout' = fout
           /\ fd' = LateRead(fd)]_vars

\* A poll_read was made after termination, with source bytes still unread.
C33_Witness ==
    /\ fd.st = "open" /\ ~fd.inner
    /\ fd.late >= 1
    /\ fd.pos < Len(fd.src)
    /\ fret = "eof"

\* C32: after Lz4Encoder::finish the sink holds every produced frame exactly
\* once; the part of a pending frame written before finish (pending_offset
\* > 0) is not written again.
C32_FinishWritesFramesOnce ==
    (fe.st = "finished" /\ fe.codec = "lz4") => fe.sink = ProducedBytes

\* Ciphertext produced so far that the sink has not accepted.
Unwritten(a) == Len(a.out_buf) - a.out_pos

\* C31: when poll_flush or poll_close returns Ready(Ok), out_buf holds no
\* unwritten bytes: every ciphertext byte produced so far is in the sink,
\* also when the sink accepts writes only partially.
C31_FlushDrainsOutBuf ==
    aret \in {"f_ok", "c_ok"} =>
        /\ Unwritten(ae) = 0
        /\ Len(ae.sink) = BLOCK * Len(ae.blocks)

\* poll_flush returned Ready(Ok) after the sink took only part of out_buf.
C31_FlushOverPartialSink ==
    /\ aret \in {"f_ok", "c_ok"}
    /\ Unwritten(ae) > 0
    /\ Len(ae.sink) < BLOCK * Len(ae.blocks)

(***************************************************************************)
(* add_decoder (decoder.rs).  The result records what was returned         *)
(* (res "Ok" with the Decoder variant, "Err" with the error, or "panic"),  *)
(* how many bytes the constructors of this repository read from the input  *)
(* (read) and how many AES keys were derived (keys).                       *)
(***************************************************************************)
BcjIds ==
    {"BCJ_X86", "BCJ_ARM", "BCJ_ARM64", "BCJ_ARM_THUMB", "BCJ_PPC", "BCJ_IA64",
     "BCJ_SPARC", "BCJ_RISCV"}

\* The registered table of EncoderMethod.
RegisteredIds ==
    {"COPY", "LZMA", "LZMA2", "DEFLATE", "BZIP2", "ZSTD", "BROTLI", "LZ4", "PPMD",
     "DELTA", "AES256_SHA256"} \cup BcjIds

by_id(id) == IF id \in RegisteredIds THEN id ELSE "None"

Ok(kind, read, keys) == [res |-> "Ok", kind |-> kind, read |-> read, keys |-> keys]

Err(kind, read) == [res |-> "Err", kind |-> kind, read |-> read, keys |-> 0]

\* Error::MaxMemLimited { max_kb, actaul_kb }; actaul_kb in two limbs.
MaxMemLimited(max_kb, actaul_kb) ==
    [res |-> "Err", kind |-> "MaxMemLimited", read |-> 0, keys |-> 0,
     max_kb |-> max_kb, actaul_kb |-> actaul_kb]

\* x << r for r below 16, limb by limb.
ShlLimb(x, r) ==
    U64((x[1] * (2 ^ r)) + (x[2] \div (2 ^ (16 - r))), (x[2] % (2 ^ (16 - r))) * (2 ^ r))

\* x << n for n below 32.
Shl64(x, n) ==
    IF n < 16 THEN ShlLimb(x, n) ELSE ShlLimb(U64((x[1] * Limb) + x[2], 0), n - 16)

\* get_lzma2_dic_size: [ok, size] with size a 32-bit value in two limbs.
get_lzma2_dic_size_lowBits(properties) ==
    IF properties = <<>> THEN [ok |-> FALSE, size |-> Zero64]
    ELSE LET bits == properties[1] % 64 IN
         IF bits > 40 THEN [ok |-> FALSE, size |-> Zero64]
         ELSE IF bits = 40 THEN [ok |-> TRUE, size |-> U64(Limb - 1, Limb - 1)]
         ELSE [ok |-> TRUE, size |-> Shl64(U64(0, 2 + (bits % 2)), (bits \div 2) + 11)]

get_lzma2_dic_size(properties) ==
    IF properties = <<>> THEN [ok |-> FALSE, size |-> Zero64]
    ELSE LET bits == properties[1] IN
         IF bits >= 64 THEN [ok |-> FALSE, size |-> Zero64]
         ELSE IF bits > 40 THEN [ok |-> FALSE, size |-> Zero64]
         ELSE IF bits = 40 THEN [ok |-> TRUE, size |-> U64(Limb - 1, Limb - 1)]
         ELSE [ok |-> TRUE, size |-> Shl64(U64(0, 2 + (bits % 2)), (bits \div 2) + 11)]

\* lzma2_get_memory_usage of the LZMA library, in KiB: a fixed overhead
\* plus the dictionary.
lzma2_get_memory_usage(dic_size) == 40 + 64 + (dic_size[1] * 64) + (dic_size[2] \div 1024)

PPMD7_MIN_ORDER == 2

PPMD7_MAX_ORDER == 64

PPMD7_MIN_MEM_SIZE == U64(0, 2048)

PPMD7_MAX_MEM_SIZE == U64(Limb - 1, Limb - 1 - 36)

\* get_ppmd_order_memory_size: [res, memory_size] with res "ok", "other" or
\* "MaxMemLimited" and memory_size the declared size in bytes.
get_ppmd_order_memory_size(properties, max_mem_limit_kb) ==
    IF Len(properties) < 5 THEN [res |-> "other", memory_size |-> Zero64]
    ELSE LET order == properties[1]
             memory_size == U64(properties[5] * 256 + properties[4],
                                properties[3] * 256 + properties[2])
         IN [memory_size |-> memory_size,
             res |-> IF order < PPMD7_MIN_ORDER \/ order > PPMD7_MAX_ORDER THEN "other"
                     ELSE IF Gt64(PPMD7_MIN_MEM_SIZE, memory_size) THEN "other"
                     ELSE IF Gt64(memory_size, PPMD7_MAX_MEM_SIZE) THEN "other"
                     ELSE IF Gt64(memory_size, U64OfInt(max_mem_limit_kb))
                     THEN "MaxMemLimited"
                     ELSE "ok"]

KEY_LEN == 32

iv_size_noFlag(b0, b1) == b1 % 16

iv_size(b0, b1) == ((b0 \div 64) % 2) + (b1 % 16)

salt_size(b0, b1) == ((b0 \div 128) % 2) + (b1 \div 16)

\* 1u32 << num_cycles_power where the shift does not panic: the amount is
\* taken modulo 32.
RoundCount(num_cycles_power) == Shl64(U64(0, 1), num_cycles_power % 32)

\* get_aes_key: [res, cycles, salt, iv, rounds, aes_key] with res "ok",
\* "other", "PasswordRequired" or "panic".  With num_cycles_power = 0x3F
\* copy_from_slice copies salt_size bytes into the 32-byte key and panics
\* unless the lengths agree.  1u32 << num_cycles_power overflows for a
\* power of 32 or more: a panic in a build with overflow checks, a wrapped
\* shift in one without.  The hashed key is the symbol "sha256".
get_aes_key(properties, password, overflow_checks) ==
    IF Len(properties) < 2 THEN [res |-> "other"]
    ELSE
      LET b0 == properties[1]
          b1 == properties[2]
          num_cycles_power == b0 % 64
          ivs == iv_size(b0, b1)
          salts == salt_size(b0, b1)
          salt == SubSeq(properties, 3, 2 + salts)
          iv == SubSeq(properties, 3 + salts, 2 + salts + ivs) \o Zeros(BLOCK - ivs)
      IN
      IF 2 + salts + ivs > Len(properties) THEN [res |-> "other"]
      ELSE IF password = <<>> THEN [res |-> "PasswordRequired"]
      ELSE IF num_cycles_power = 63
      THEN IF salts # KEY_LEN THEN [res |-> "panic"]
           ELSE [res |-> "ok", cycles |-> num_cycles_power, salt |-> salt, iv |-> iv,
                 rounds |-> Zero64,
                 aes_key |-> salt \o Take(password, KEY_LEN - salts)]
      ELSE IF num_cycles_power >= 32 /\ overflow_checks THEN [res |-> "panic"]
      ELSE [res |-> "ok", cycles |-> num_cycles_power, salt |-> salt, iv |-> iv,
            rounds |-> RoundCount(num_cycles_power), aes_key |-> <<"sha256">>]

Panic == [res |-> "panic", kind |-> "panic", read |-> 0, keys |-> 0]

\* Aes256Sha256Decoder::new: derive the key, keep the input unread.
Aes256Sha256DecoderNew(properties, password, overflow_checks) ==
    LET k == get_aes_key(properties, password, overflow_checks) IN
    CASE k.res = "ok" -> Ok("Aes256Sha256", 0, 1)
      [] k.res = "panic" -> Panic
      [] OTHER -> Err(k.res, 0)

\* The AES256_SHA256 arm: the password test, then Aes256Sha256Decoder::new.
AesArm_keyFirst(properties, password, overflow_checks) ==
    Aes256Sha256DecoderNew(properties, password, overflow_checks)

AesArm(properties, password, overflow_checks) ==
    IF password = <<>> THEN Err("PasswordRequired", 0)
    ELSE Aes256Sha256DecoderNew(properties, password, overflow_checks)

\* The DELTA arm: d is a u8, 1 for empty properties and else
\* properties[0].wrapping_add(1); DeltaReader::new(std_in, d as usize).
DeltaArm(properties) ==
    [res |-> "Ok", kind |-> "Delta", read |-> 0, keys |-> 0,
     distance |-> IF properties = <<>> THEN 1 ELSE (properties[1] + 1) % 256]

\* BrotliDecoder::new(input, 4096) / Lz4Decoder::new(input).
FrameArm(codec, kind, input, first) ==
    LET d == DecoderNew(codec, input, first, BufCap) IN
    IF d.st = "failed" THEN Err("other", d.pos) ELSE Ok(kind, d.pos, 0)

add_decoder(c) ==
    LET method == by_id(c.id)
        dic == get_lzma2_dic_size(c.properties)
        ppmd == get_ppmd_order_memory_size(c.properties, c.max_mem_limit_kb)
    IN
    CASE method = "None" -> Err("UnsupportedCompressionMethod", 0)
      [] method = "COPY" -> Ok("Copy", 0, 0)
      [] method = "LZMA" ->
           IF Len(c.properties) < 5 THEN Err("io", 0) ELSE Ok("Lzma", 0, 0)
      [] method = "LZMA2" ->
           IF ~dic.ok THEN Err("other", 0)
           ELSE IF lzma2_get_memory_usage(dic.size) > c.max_mem_limit_kb
           THEN MaxMemLimited(c.max_mem_limit_kb,
                              U64OfInt(lzma2_get_memory_usage(dic.size)))
           ELSE Ok(IF c.threads < 2 THEN "Lzma2" ELSE "Lzma2Mt", 0, 0)
      [] method = "PPMD" ->
           IF ppmd.res = "ok" THEN Ok("Ppmd", 0, 0)
           ELSE IF ppmd.res = "MaxMemLimited"
           THEN MaxMemLimited(c.max_mem_limit_kb, ppmd.memory_size)
           ELSE Err(ppmd.res, 0)
      [] method = "BROTLI" -> FrameArm("brotli", "Brotli", c.input, c.first)
      [] method = "BZIP2" -> Ok("Bzip2", 0, 0)
      [] method = "DEFLATE" -> Ok("Deflate", 0, 0)
      [] method = "LZ4" -> FrameArm("lz4", "Lz4", c.input, c.first)
      [] method = "ZSTD" -> Ok("Zstd", 0, 0)
      [] method \in BcjIds -> Ok("Bcj", 0, 0)
      [] method = "DELTA" -> DeltaArm(c.properties)
      [] method = "AES256_SHA256" -> AesArm(c.properties, c.password, c.overflow_checks)
      [] OTHER -> Err("UnsupportedCompressionMethod", 0)

(***************************************************************************)
(* Specification of add_decoder: one call with any coder, password,        *)
(* memory cap, thread count and input.                                     *)
(***************************************************************************)
AesProperties ==
    {<<>>, <<19>>, <<19, 0>>, <<63, 0>>, <<40, 0>>, <<83, 0>>, <<83, 0, 7>>,
     <<211, 17, 5, 6, 7, 8>>}

CoderProperties ==
    AesProperties \cup {<<24>>, <<40>>, <<41>>, <<64>>,
                        <<6, 0, 0, 1, 0>>, <<1, 0, 0, 1, 0>>, <<6, 0, 1, 0, 0>>}

AddInputs ==
    {<<>>, <<1, 2>>, Compress(<<11, 12>>), Frame("brotli", <<11>>), Frame("lz4", <<11>>)}

AddCalls ==
    [id : RegisteredIds \cup {"UNKNOWN"}, properties : CoderProperties,
     password : {<<>>, <<1, 2>>}, max_mem_limit_kb : {1024, 1024 * 1024},
     threads : {1, 2}, input : AddInputs, first : {2, HeaderLen("brotli")},
     overflow_checks : BOOLEAN]

InitAdd ==
    /\ addArgs = NoCall
    /\ addRes = [res |-> "none"]
    /\ IdleSolid /\ IdleFdec /\ IdleFenc /\ IdleEnc /\ IdleAes /\ IdleAdec /\ IdleCw /\ IdleFn /\ IdleStrip

AddDecoder ==
    /\ addArgs = NoCall
    /\ \E c \in AddCalls :
         /\ addArgs' = c
         /\ addRes' = add_decoder(c)

NextAdd ==
    AddDecoder /\ UNCHANGED <<solidVars, fdecVars, fencVars, encVars, aesVars, adecVars, cwVars, fnVars, stripVars>>

SpecAddDecoder == InitAdd /\ [][NextAdd]_vars

(***************************************************************************)
(* Claims about add_decoder.                                               *)
(***************************************************************************)
\* C4: for an AES256_SHA256 coder and an empty password add_decoder returns
\* PasswordRequired whatever the properties are, having read no byte of the
\* input and derived no key.
C4_PasswordRequired ==
    (addArgs.id = "AES256_SHA256" /\ addArgs.password = <<>>) =>
        /\ addRes.res = "Err" /\ addRes.kind = "PasswordRequired"
        /\ addRes.read = 0
        /\ addRes.keys = 0

C4_Witness ==
    /\ addArgs.id = "AES256_SHA256" /\ addArgs.password = <<>>
    /\ Len(addArgs.properties) < 2
    /\ addArgs.input # <<>>
    /\ addRes.res = "Err" /\ addRes.kind = "PasswordRequired" /\ addRes.read = 0

(***************************************************************************)
(* Aes256Sha256Decoder (encryption/aes.rs).  The ciphertext is the         *)
(* symbolic CBC stream of the encoder: byte j of block n is <<n, j>>.  A   *)
(* block decrypts to the plaintext block n only if it is exactly block n   *)
(* and the block decrypted before it was block n - 1 (the CBC chain);      *)
(* anything else decrypts to garbage.  Plaintext bytes are <<"p", n, j>>.  *)
(***************************************************************************)
MaxCipherLen == 34

MaxCallerBuf == 17

IBUFFER == 512

Ciphertext(len) == [i \in 1..len |-> <<((i - 1) \div BLOCK) + 1, ((i - 1) % BLOCK) + 1>>]

PlainBlock(n) == [j \in 1..BLOCK |-> <<"p", n, j>>]

RECURSIVE PlainBlocks(_)
PlainBlocks(k) == IF k = 0 THEN <<>> ELSE PlainBlocks(k - 1) \o PlainBlock(k)

\* Cipher: the CBC decryptor (chain = number of the block decrypted last,
\* -1 once the chain is broken) and the buffered trailing bytes.
CipherNew == [buf |-> <<>>, chain |-> 0]

\* dec.decrypt_block_mut on one 16-byte block.
decrypt_block_mut(c, blk) ==
    IF c.chain >= 0 /\ blk = CipherBlock(c.chain + 1) THEN PlainBlock(c.chain + 1)
    ELSE [j \in 1..BLOCK |-> <<"g", c.chain, j>>]

ChainAfter(c, blk) ==
    [c EXCEPT !.chain = IF c.chain >= 0 /\ blk = CipherBlock(c.chain + 1)
                        THEN c.chain + 1 ELSE -1]

\* for a in data.chunks_mut(16): decrypt the full chunks, buffer a short
\* last one.
RECURSIVE UpdateChunks(_, _, _)
UpdateChunks(c, data, out) ==
    IF data = <<>> THEN [res |-> "ok", c |-> c, out |-> out]
    ELSE IF Len(data) < BLOCK
    THEN [res |-> "ok", c |-> [c EXCEPT !.buf = @ \o data], out |-> out]
    ELSE UpdateChunks(ChainAfter(c, Take(data, BLOCK)), Drop(data, BLOCK),
                      out \o decrypt_block_mut(c, Take(data, BLOCK)))

\* Cipher::update on the bytes of one source read: [res, c, out], res
\* "panic" when &data[..end] is out of range.
Cipher_update(c, data) ==
    IF c.buf = <<>> THEN UpdateChunks(c, data, <<>>)
    ELSE IF Len(data) < BLOCK - Len(c.buf)
    THEN [res |-> "panic", c |-> c, out |-> <<>>]
    ELSE UpdateChunks(ChainAfter([c EXCEPT !.buf = <<>>],
                                 c.buf \o Take(data, BLOCK - Len(c.buf))),
                      Drop(data, BLOCK - Len(c.buf)),
                      decrypt_block_mut(c, c.buf \o Take(data, BLOCK - Len(c.buf))))

\* Cipher::do_final: Ok(0), or InvalidData when bytes are left over.
Cipher_do_final(c) == IF c.buf = <<>> THEN "ok" ELSE "InvalidData"

\* Aes256Sha256Decoder::new over a source holding src.  out is the history
\* of the bytes delivered to the caller.
AesDecoderNew(src) ==
    [st |-> "open", src |-> src, spos |-> 0, cipher |-> CipherNew, done |-> FALSE,
     obuffer |-> <<>>, ostart |-> 0, ofinish |-> 0, pos |-> 0, out |-> <<>>,
     polled |-> "no", eofSeen |-> FALSE]

\* The end of poll_read once obuffer holds the result of update / do_final.
DeliverFresh(a, n) ==
    IF a.ofinish = 0
    THEN [a |-> a, ret |-> IF a.done THEN "eof" ELSE "pending"]
    ELSE LET count == Min(a.ofinish, n) IN
         [a |-> [a EXCEPT !.ostart = count, !.pos = @ + count,
                          !.out = @ \o Take(a.obuffer, count)],
          ret |-> "data"]

\* Aes256Sha256Decoder::poll_read with a caller buffer of n bytes; resp is
\* the answer of the source: Pending, or Ready with resp.n bytes.
\* polled records what the source did in this call.
aes_poll_read(a0, n, resp) ==
    IF a0.ostart < a0.ofinish
    THEN LET k == Min(a0.ofinish - a0.ostart, n) IN
         [a |-> [a0 EXCEPT !.ostart = @ + k, !.pos = @ + k, !.polled = "no",
                           !.out = @ \o SubSeq(a0.obuffer, a0.ostart + 1, a0.ostart + k)],
          ret |-> "data"]
    ELSE IF a0.done THEN [a |-> [a0 EXCEPT !.polled = "no"], ret |-> "eof"]
    ELSE
      LET a == [a0 EXCEPT !.ofinish = 0, !.ostart = 0, !.obuffer = <<>>] IN
      IF resp.pending THEN [a |-> [a EXCEPT !.polled = "pending"], ret |-> "pending"]
      ELSE IF resp.n = 0
      THEN IF Cipher_do_final(a.cipher) = "ok"
           THEN DeliverFresh([a EXCEPT !.done = TRUE, !.polled = "ready",
                                       !.eofSeen = TRUE], n)
           ELSE [a |-> [a EXCEPT !.done = TRUE, !.polled = "ready", !.eofSeen = TRUE],
                 ret |-> "InvalidData"]
      ELSE
        LET u == Cipher_update(a.cipher, SubSeq(a.src, a.spos + 1, a.spos + resp.n)) IN
        IF u.res = "panic"
        THEN [a |-> [a EXCEPT !.polled = "ready", !.spos = @ + resp.n], ret |-> "panic"]
        ELSE DeliverFresh([a EXCEPT !.polled = "ready", !.spos = @ + resp.n,
                                    !.cipher = u.c, !.obuffer = u.out,
                                    !.ofinish = Len(u.out)], n)

(***************************************************************************)
(* Specification of the AES decoder: a ciphertext of any length, a source  *)
(* that answers each read with Pending or with any non-zero number of the  *)
(* remaining bytes (0 at its end), and a caller with any buffer size.      *)
(***************************************************************************)
SrcPending == [pending |-> TRUE, n |-> 0]

SrcReady(k) == [pending |-> FALSE, n |-> k]

SourceAnswers(a) ==
    IF a.spos = Len(a.src) THEN {SrcPending, SrcReady(0)}
    ELSE {SrcPending} \cup {SrcReady(k) : k \in 1..Min(IBUFFER, Len(a.src) - a.spos)}

InitAesDec ==
    /\ \E len \in 0..MaxCipherLen : ad = AesDecoderNew(Ciphertext(len))
    /\ adret = "none"
    /\ IdleSolid /\ IdleFdec /\ IdleFenc /\ IdleEnc /\ IdleAes /\ IdleAdd /\ IdleCw /\ IdleFn /\ IdleStrip

AdPollRead ==
    /\ ad.st = "open"
    /\ adret # "panic"
    /\ \E n \in 1..MaxCallerBuf, resp \in SourceAnswers(ad) :
         LET r == aes_poll_read(ad, n, resp) IN
         /\ ad' = r.a
         /\ adret' = r.ret

NextAesDec ==
    AdPollRead /\ UNCHANGED <<solidVars, fdecVars, fencVars, encVars, aesVars, addVars, cwVars, fnVars, stripVars>>

SpecAesDec == InitAesDec /\ [][NextAesDec]_vars

(***************************************************************************)
(* Claims about the AES decoder.                                           *)
(***************************************************************************)
\* Decrypted and not yet delivered.
Undelivered(a) == SubSeq(a.obuffer, a.ostart + 1, a.ofinish)

\* C11: whatever the split of the ciphertext into source reads and the
\* caller's buffer sizes, no update panics, the cipher buffers fewer than
\* 16 bytes, and what was delivered plus what is decrypted and waiting is
\* the decryption of the complete blocks received so far, in order, once.
C11_ChunkingIndependent ==
    ad.st = "open" =>
        /\ adret # "panic"
        /\ Len(ad.cipher.buf) < BLOCK
        /\ ad.out \o Undelivered(ad) = PlainBlocks(ad.spos \div BLOCK)

\* The call that found the source at its end.
SawEof(a) == a.polled = "ready" /\ a.done

\* C12: when the source ends and the ciphertext length is no multiple of
\* 16 the read fails with InvalidData, and end-of-stream is never reported
\* while the cipher still buffers residual bytes.
C12_ResidualIsInvalidData ==
    ad.st = "open" =>
        /\ (SawEof(ad) /\ Len(ad.src) % BLOCK # 0) => adret = "InvalidData"
        /\ adret = "eof" => ad.cipher.buf = <<>>

\* C13: poll_read of the AES decoder returns Pending only when its source
\* returned Pending in that same call.
C13_PendingOnlyFromSource ==
    (ad.st = "open" /\ adret = "pending") => ad.polled = "pending"

C15_EofOnlyWithoutNextHeader ==
    (fd.st = "open" /\ FramedStream /\ fret = "eof") => fd.pos = Len(fd.src)

\* C16: a stream that starts with a full skippable-frame header is decoded
\* in framed mode, however many bytes the source returns to the
\* constructor's read.
C16_FramedModeDetected ==
    (fd.st # "none" /\ fcfg.kind = "framed"
       /\ Len(SourceBytes(fcfg)) >= HeaderLen(fcfg.codec)) =>
        (fd.st = "open" /\ fd.rk = "Skippable")

\* C17: in standard mode the bytes handed to the codec (fed) are the
\* source's bytes from the first one on: the peeked bytes, then what is
\* read after them, nothing lost, repeated or reordered; the bytes still
\* to hand over are the unread part of the peeked header and the rest.
C17_StandardModeBytes ==
    (fd.st = "open" /\ fd.rk = "Standard") =>
        /\ fd.fed \o fd.hb = SubSeq(fd.src, 1, fd.pos)
        /\ (fd.hfin => fd.hb = <<>>)

C17_Witness ==
    /\ fd.st = "open" /\ fd.rk = "Standard"
    /\ fd.hfin /\ Len(fd.fed) > fcfg.first /\ fcfg.first >= 4
    /\ fd.fed = SubSeq(fd.src, 1, Len(fd.fed))

(***************************************************************************)
(* Further claims about the framed encoders.                               *)
(***************************************************************************)
\* C18: every frame emitted carries between 1 and frame_size uncompressed
\* bytes; between calls the open frame holds fewer than frame_size bytes
\* and a compressor is present, so poll_write never takes its
\* zero-capacity branch and never panics on a missing compressor.
C18_FrameQuota ==
    fe.st # "none" =>
        /\ \A i \in 1..Len(fe.produced) :
               Len(fe.produced[i]) >= 1 /\ Len(fe.produced[i]) <= fe.frame_size
        /\ fe.st = "open" => (fe.u < fe.frame_size /\ fe.compSome)
        /\ feret \notin {"panic", "w_pending"}

(***************************************************************************)
(* CountingWriter (writer/counting_writer.rs): a sink wrapper that keeps   *)
(* the number of bytes its inner sink accepted in a counter shared with    *)
(* whoever called counting().  The inner sink W is any AsyncWrite +        *)
(* AsyncSeek: each call on it may succeed, fail or (polled) be Pending.    *)
(* cw.accepted is the history of what the inner sink accepted, cw.before   *)
(* the counter as it was when the last operation began.                    *)
(***************************************************************************)
MaxWriteBuf == 2
MaxTotal == 6
MaxSeek == 2

InnerSink == [pos |-> 0, len |-> 0]

CountingWriterNew(inner) ==
    [st |-> "open", inner |-> inner, counting |-> 0, written_bytes |-> 0,
     accepted |-> 0, before |-> 0]

\* What the inner sink may answer to a write of n bytes.
InnerWriteAnswers(n, polled) ==
    {[kind |-> "ok", len |-> k] : k \in 0..n} \cup {[kind |-> "err", len |-> 0]}
        \cup (IF polled THEN {[kind |-> "pending", len |-> 0]} ELSE {})

InnerAnswers(polled) == {"ok", "err"} \cup (IF polled THEN {"pending"} ELSE {})

InnerAccept(inner, len) ==
    [pos |-> inner.pos + len,
     len |-> IF inner.pos + len > inner.len THEN inner.pos + len ELSE inner.len]

\* self.written_bytes += len; self.counting.set(self.written_bytes)
CountAccepted_buf(c, n, len) ==
    [c EXCEPT !.written_bytes = @ + n, !.counting = c.written_bytes + n]

CountAccepted(c, n, len) ==
    [c EXCEPT !.written_bytes = @ + len, !.counting = c.written_bytes + len]

\* Write::write and AsyncWrite::poll_write: both count only Ok(len).
cw_write(c0, n, ans) ==
    LET c == [c0 EXCEPT !.before = c0.counting] IN
    IF ans.kind = "ok"
    THEN CountAccepted([c EXCEPT !.inner = InnerAccept(@, ans.len),
                                 !.accepted = @ + ans.len], n, ans.len)
    ELSE c

\* flush, poll_flush, poll_close: handed to the inner sink.
cw_passthrough(c0) == [c0 EXCEPT !.before = c0.counting]

SeekFroms ==
    {[whence |-> "Start", off |-> n] : n \in 0..MaxSeek}
        \cup {[whence |-> w, off |-> i] : w \in {"End", "Current"}, i \in -1..1}

SeekTarget(inner, pos) ==
    CASE pos.whence = "Start" -> pos.off
      [] pos.whence = "End" -> inner.len + pos.off
      [] OTHER -> inner.pos + pos.off

\* Seek::seek: the inner sink moves (or refuses a negative position).
cw_seek(c0, pos) ==
    LET c == [c0 EXCEPT !.before = c0.counting] IN
    IF SeekTarget(c0.inner, pos) >= 0
    THEN [c EXCEPT !.inner.pos = SeekTarget(c0.inner, pos)]
    ELSE c

InitCw ==
    /\ cw = CountingWriterNew(InnerSink)
    /\ cwret = "none"
    /\ IdleSolid /\ IdleFdec /\ IdleFenc /\ IdleEnc /\ IdleAes /\ IdleAdd /\ IdleAdec /\ IdleFn /\ IdleStrip

CwWrite ==
    /\ cw.st = "open"
    /\ \E n \in 0..MaxWriteBuf : \E ans \in InnerWriteAnswers(n, FALSE) :
         /\ cw.accepted + ans.len <= MaxTotal
         /\ cw' = cw_write(cw, n, ans)
         /\ cwret' = "write_" \o ans.kind

CwPollWrite ==
    /\ cw.st = "open"
    /\ \E n \in 0..MaxWriteBuf : \E ans \in InnerWriteAnswers(n, TRUE) :
         /\ cw.accepted + ans.len <= MaxTotal
         /\ cw' = cw_write(cw, n, ans)
         /\ cwret' = "poll_write_" \o ans.kind

CwFlush ==
    /\ cw.st = "open"
    /\ \E ans \in InnerAnswers(FALSE) :
         /\ cw' = cw_passthrough(cw)
         /\ cwret' = "flush_" \o ans

CwPollFlush ==
    /\ cw.st = "open"
    /\ \E ans \in InnerAnswers(TRUE) :
         /\ cw' = cw_passthrough(cw)
         /\ cwret' = "poll_flush_" \o ans

CwPollClose ==
    /\ cw.st = "open"
    /\ \E ans \in InnerAnswers(TRUE) :
         /\ cw' = cw_passthrough(cw)
         /\ cwret' = "poll_close_" \o ans

CwSeek ==
    /\ cw.st = "open"
    /\ \E pos \in SeekFroms :
         /\ SeekTarget(cw.inner, pos) <= MaxSeek
         /\ cw' = cw_seek(cw, pos)
         /\ cwret' = IF SeekTarget(cw.inner, pos) >= 0 THEN "seek_ok" ELSE "seek_err"

NextCw ==
    \/ CwWrite /\ UNCHANGED <<solidVars, fdecVars, fencVars, encVars, aesVars, addVars, adecVars, fnVars, stripVars>>
    \/ CwPollWrite /\ UNCHANGED <<solidVars, fdecVars, fencVars, encVars, aesVars, addVars, adecVars, fnVars, stripVars>>
    \/ CwFlush /\ UNCHANGED <<solidVars, fdecVars, fencVars, encVars, aesVars, addVars, adecVars, fnVars, stripVars>>
    \/ CwPollFlush /\ UNCHANGED <<solidVars, fdecVars, fencVars, encVars, aesVars, addVars, adecVars, fnVars, stripVars>>
    \/ CwPollClose /\ UNCHANGED <<solidVars, fdecVars, fencVars, encVars, aesVars, addVars, adecVars, fnVars, stripVars>>
    \/ CwSeek /\ UNCHANGED <<solidVars, fdecVars, fencVars, encVars, aesVars, addVars, adecVars, fnVars, stripVars>>

SpecCw == InitCw /\ [][NextCw]_vars

CountingOutcomes == {"write_ok", "poll_write_ok"}

\* C19: the shared counter equals the sum of the byte counts the inner sink
\* accepted through write or poll_write; no operation decreases it, and a
\* failed or Pending write, a flush, a close and a seek leave it as it was.
C19_CounterIsAcceptedSum ==
    cw.st = "open" =>
        /\ cw.counting = cw.accepted
        /\ cw.counting >= cw.before
        /\ cwret \notin CountingOutcomes => cw.counting = cw.before

C19_Witness ==
    /\ cw.st = "open"
    /\ cwret = "poll_write_pending"
    /\ cw.counting = 3
    /\ cw.inner.pos = 0
    /\ cw.before = 3

(***************************************************************************)
(* Further claims about add_decoder.                                       *)
(***************************************************************************)
\* The declared PPMd memory size of a well-formed property block, in bytes.
PpmdDeclared(properties) ==
    U64(properties[5] * 256 + properties[4], properties[3] * 256 + properties[2])

\* A byte count in KiB, rounded up.
KiB(bytes) == (bytes[1] * (Limb \div 1024)) + ((bytes[2] + 1023) \div 1024)

\* The calls that reach the memory test of their coder.
ReachesLzma2Test ==
    /\ by_id(addArgs.id) = "LZMA2"
    /\ get_lzma2_dic_size(addArgs.properties).ok

ReachesPpmdTest ==
    /\ by_id(addArgs.id) = "PPMD"
    /\ get_ppmd_order_memory_size(addArgs.properties, 0).res = "MaxMemLimited"

\* C20: add_decoder fails with MaxMemLimited exactly when the coder's
\* memory estimate in KiB (LZMA2: from the dictionary size; PPMd: the
\* declared memory size) exceeds max_mem_limit_kb, and the error carries
\* the cap as max_kb and the estimate in KiB.
C20_MemoryBound ==
    addArgs # NoCall =>
        LET est == IF ReachesLzma2Test
                   THEN lzma2_get_memory_usage(get_lzma2_dic_size(addArgs.properties).size)
                   ELSE KiB(PpmdDeclared(addArgs.properties))
        IN /\ (ReachesLzma2Test \/ ReachesPpmdTest) =>
                 /\ (addRes.kind = "MaxMemLimited") = (est > addArgs.max_mem_limit_kb)
                 /\ addRes.kind = "MaxMemLimited" =>
                        /\ addRes.max_kb = addArgs.max_mem_limit_kb
                        /\ addRes.actaul_kb = U64OfInt(est)
           /\ ~(ReachesLzma2Test \/ ReachesPpmdTest) => addRes.kind # "MaxMemLimited"

(***************************************************************************)
(* Property encoding and decoding, key derivation, frame headers: the     *)
(* functions of decoder.rs, encoder.rs, aes.rs and brotli.rs that map a    *)
(* coder's options to its property bytes and back.  A behaviour makes one  *)
(* call: fn holds the function and its arguments, fnret what it returned.  *)
(***************************************************************************)
NoFn == [name |-> "none"]

Lzma2Properties == {<<>>} \cup {<<b>> : b \in 0..255} \cup {<<24, 7>>, <<200, 7>>}

InitFn ==
    /\ fn = NoFn
    /\ fnret = [res |-> "none"]
    /\ IdleSolid /\ IdleFdec /\ IdleFenc /\ IdleEnc /\ IdleAes /\ IdleAdd /\ IdleAdec /\ IdleCw
    /\ IdleStrip

FnGetLzma2DicSize ==
    /\ fn = NoFn
    /\ \E properties \in Lzma2Properties :
         /\ fn' = [name |-> "get_lzma2_dic_size", properties |-> properties]
         /\ fnret' = get_lzma2_dic_size(properties)

\* (2 | (b & 1)) << (b/2 + 11) as a number, in limbs.
DicSizeOf(b) ==
    LET m == 2 + (b % 2)
        e == (b \div 2) + 11
    IN IF e >= 16 THEN U64(m * (2 ^ (e - 16)), 0) ELSE U64OfInt(m * (2 ^ e))

\* C21: get_lzma2_dic_size fails on empty properties, on a byte above 40
\* and on a byte with a bit outside 0x3F, returns 0xFFFFFFFF for 40 and
\* otherwise (2 | (b & 1)) << (b/2 + 11), which fits in 32 bits.
C21_Lzma2DicSize ==
    fn.name = "get_lzma2_dic_size" =>
        IF fn.properties = <<>> THEN ~fnret.ok
        ELSE LET b == fn.properties[1] IN
             /\ (b > 40 \/ b >= 64) => ~fnret.ok
             /\ b = 40 => (fnret.ok /\ fnret.size = U64(Limb - 1, Limb - 1))
             /\ b < 40 => /\ fnret.ok
                          /\ fnret.size = DicSizeOf(b)
                          /\ fnret.size[1] < Limb /\ fnret.size[2] < Limb

C21_Witness ==
    /\ fn.name = "get_lzma2_dic_size"
    /\ fn.properties = <<39>>
    /\ fnret.ok
    /\ fnret.size = U64(3 * 16384, 0)

(***************************************************************************)
(* get_aes_key.  The hashing loop of the function is followed round by     *)
(* round: fn.i is the number of rounds done, fn.extra the counter bytes,   *)
(* fn.fed what the last round fed to the hasher.                           *)
(***************************************************************************)
MaxRounds == 520

MaxTail == 1

KeyFirstBytes ==
    {c + f : c \in {0, 1, 8, 9, 31, 32, 62, 63}, f \in {0, 64, 128, 192}}

KeySecondBytes == {0, 17, 2, 48, 15, 240, 255}

\* Property blocks: the two size bytes, then from one byte fewer than they
\* announce to MaxTail bytes more.
KeyProperties ==
    {<<>>, <<19>>} \cup
    {<<b0, b1>> \o [j \in 1..n |-> 100 + j] :
        b0 \in KeyFirstBytes, b1 \in KeySecondBytes, n \in 0..(32 + MaxTail)}

KeyCalls ==
    {c \in [properties : KeyProperties, password : {<<>>, <<1, 2>>},
            overflow_checks : BOOLEAN] :
        Len(c.properties) >= 2 =>
            LET need == salt_size(c.properties[1], c.properties[2])
                          + iv_size(c.properties[1], c.properties[2])
            IN Len(c.properties) - 2 \in (need - 1)..(need + MaxTail)}

\* for item in &mut extra { *item = item.wrapping_add(1); if *item != 0 { break } }
RECURSIVE BumpExtra(_, _)
BumpExtra(extra, j) ==
    IF j > Len(extra) THEN extra
    ELSE IF extra[j] # 255 THEN [extra EXCEPT ![j] = extra[j] + 1]
    ELSE BumpExtra([extra EXCEPT ![j] = 0], j + 1)

FnGetAesKey ==
    /\ fn = NoFn
    /\ \E c \in KeyCalls :
         LET k == get_aes_key(c.properties, c.password, c.overflow_checks) IN
         /\ fn' = [name |-> "get_aes_key", properties |-> c.properties,
                   password |-> c.password, overflow_checks |-> c.overflow_checks,
                   i |-> 0, extra |-> Zeros(8), fed |-> <<>>]
         /\ fnret' = IF k.res = "ok" /\ k.cycles # 63
                     THEN [k EXCEPT !.res = "hashing"] ELSE k

\* One round of: sha.update(&salt); sha.update(password); sha.update(extra).
FnKeyRound ==
    /\ fn.name = "get_aes_key"
    /\ fnret.res = "hashing"
    /\ fn.i < MaxRounds
    /\ Gt64(fnret.rounds, U64OfInt(fn.i))
    /\ fn' = [fn EXCEPT !.fed = <<fnret.salt, fn.password, fn.extra>>,
                        !.extra = BumpExtra(fn.extra, 1), !.i = fn.i + 1]
    /\ UNCHANGED fnret

\* sha.finalize() after the last round.
FnKeyDone ==
    /\ fn.name = "get_aes_key"
    /\ fnret.res = "hashing"
    /\ fnret.rounds = U64OfInt(fn.i)
    /\ fnret' = [fnret EXCEPT !.res = "ok"]
    /\ UNCHANGED fn

(***************************************************************************)
(* get_options_as_properties (encoder.rs).  The option types are those of  *)
(* the encoder_options module: a Delta distance of 1..256, an LZMA2        *)
(* dictionary size from DICT_SIZE_MIN = 4096 up to 0xFFFFFFF0.             *)
(***************************************************************************)
DeltaDistances == 1..256

Lzma2DictSizes ==
    {U64(0, lo) : lo \in {4096, 4097, 5000, 6144, 6145, 8191, 8192, Limb - 1}}
        \cup {U64(hi, lo) : hi \in {1, 256, 384, 16384, 24576, 32768, 49152, Limb - 1},
                            lo \in {0, 1, 32768, Limb - 16}}

RECURSIVE BitLen(_)
BitLen(n) == IF n = 0 THEN 0 ELSE 1 + BitLen(n \div 2)

\* u32::leading_zeros of a value in limbs.
leading_zeros(x) == IF x[1] > 0 THEN 16 - BitLen(x[1]) ELSE 32 - BitLen(x[2])

\* x >> k for a u32 in limbs and k below 32; the result is at most 16 bits.
Shr32(x, k) ==
    IF k >= 16 THEN x[1] \div (2 ^ (k - 16))
    ELSE (x[1] * (2 ^ (16 - k))) + (x[2] \div (2 ^ k))

\* The DELTA and LZMA2 arms.  For a dictionary of 4096 bytes or more lead
\* is at most 19 and none of the wrapping operations wraps.
get_options_as_properties(method, options) ==
    IF method = "DELTA"
    THEN <<(IF options >= 1 THEN options - 1 ELSE 0) % 256>>
    ELSE LET dict_size == options
             lead == leading_zeros(dict_size)
             second_bit == Shr32(dict_size, 30 - lead) - 2
         IN <<(((19 - lead) * 2) + second_bit) % 256>>

FnDeltaProperties ==
    /\ fn = NoFn
    /\ \E distance \in DeltaDistances :
         LET properties == get_options_as_properties("DELTA", distance) IN
         /\ fn' = [name |-> "delta", distance |-> distance]
         /\ fnret' = [res |-> "ok", properties |-> properties,
                      decoded |-> DeltaArm(properties).distance]

FnLzma2Properties ==
    /\ fn = NoFn
    /\ \E dict_size \in Lzma2DictSizes :
         LET properties == get_options_as_properties("LZMA2", dict_size) IN
         /\ fn' = [name |-> "lzma2", dict_size |-> dict_size]
         /\ fnret' = [res |-> "ok", properties |-> properties,
                      decoded |-> get_lzma2_dic_size(properties)]

(***************************************************************************)
(* add_decoder and add_encoder in a build with a given set of cargo        *)
(* features: the arm of a codec behind #[cfg(feature = ..)] exists only    *)
(* when its feature is enabled.                                            *)
(***************************************************************************)
AllFeatures == {"ppmd", "brotli", "bzip2", "deflate", "lz4", "zstd", "aes256"}

FeatureSets == {AllFeatures, {}} \cup {AllFeatures \ {f} : f \in AllFeatures}

FeatureOf(id) ==
    CASE id = "PPMD" -> "ppmd"
      [] id = "BROTLI" -> "brotli"
      [] id = "BZIP2" -> "bzip2"
      [] id = "DEFLATE" -> "deflate"
      [] id = "LZ4" -> "lz4"
      [] id = "ZSTD" -> "zstd"
      [] id = "AES256_SHA256" -> "aes256"
      [] OTHER -> "none"

ArmCompiled_always(id, features) == TRUE

ArmCompiled(id, features) == FeatureOf(id) = "none" \/ FeatureOf(id) \in features

\* add_decoder as built with these features.
add_decoder_built(c, features) ==
    IF by_id(c.id) # "None" /\ ~ArmCompiled(by_id(c.id), features)
    THEN Err("UnsupportedCompressionMethod", 0)
    ELSE add_decoder(c)

\* add_encoder: [res, kind, written]; written is what construction wrote
\* to the CountingWriter.  ctor_ok is whether the codec's own constructor
\* (Lzma2WriterMt, Ppmd7Encoder, BrotliEncoder, Lz4Encoder,
\* Aes256Sha256Encoder) succeeds.
EncOk(kind) == [res |-> "Ok", kind |-> kind, written |-> 0]

EncErr(kind) == [res |-> "Err", kind |-> kind, written |-> 0]

add_encoder(c, features) ==
    LET id == c.id IN
    CASE ~ArmCompiled(id, features) -> EncErr("UnsupportedCompressionMethod")
      [] id = "COPY" -> EncOk("Copy")
      [] id = "DELTA" -> EncOk("Delta")
      [] id \in BcjIds -> EncOk("Bcj")
      [] id = "LZMA" -> EncOk("Lzma")
      [] id = "LZMA2" ->
           IF c.threads < 2 THEN EncOk("Lzma2")
           ELSE IF c.ctor_ok THEN EncOk("Lzma2Mt") ELSE EncErr("other")
      [] id = "PPMD" -> IF c.ctor_ok THEN EncOk("Ppmd") ELSE EncErr("other")
      [] id = "BROTLI" -> IF c.ctor_ok THEN EncOk("Brotli") ELSE EncErr("other")
      [] id = "BZIP2" -> EncOk("Bzip2")
      [] id = "DEFLATE" -> EncOk("Deflate")
      [] id = "LZ4" -> IF c.ctor_ok THEN EncOk("Lz4") ELSE EncErr("other")
      [] id = "ZSTD" -> EncOk("Zstd")
      [] id = "AES256_SHA256" ->
           IF ~c.options THEN EncErr("PasswordRequired")
           ELSE IF c.ctor_ok THEN EncOk("Aes") ELSE EncErr("other")
      [] OTHER -> EncErr("UnsupportedCompressionMethod")

DecoderCalls ==
    [id : RegisteredIds \cup {"UNKNOWN"}, properties : {<<>>, <<24>>, <<6, 0, 0, 1, 0>>},
     password : {<<1, 2>>}, max_mem_limit_kb : {1024 * 1024}, threads : {1},
     input : {<<1, 2>>, Frame("brotli", <<11>>)}, first : {HeaderLen("brotli")},
     overflow_checks : {TRUE}]

\* EncoderMethod values, and one the encoder has no arm for.
EncoderCalls ==
    [id : RegisteredIds \cup {"UNKNOWN"}, options : BOOLEAN, threads : {1, 2},
     ctor_ok : BOOLEAN]

FnAddDecoder ==
    /\ fn = NoFn
    /\ \E c \in DecoderCalls, features \in FeatureSets :
         /\ fn' = [name |-> "add_decoder", call |-> c, features |-> features]
         /\ fnret' = add_decoder_built(c, features)

FnAddEncoder ==
    /\ fn = NoFn
    /\ \E c \in EncoderCalls, features \in FeatureSets :
         /\ fn' = [name |-> "add_encoder", call |-> c, features |-> features]
         /\ fnret' = add_encoder(c, features)

\* Frame sizes around the hint unit and around the saturation point.
FrameByteCounts ==
    {U64(hi, lo) : hi \in {0, 1, 2, U16_MAX - 1, U16_MAX, U16_MAX + 1, 70000},
                   lo \in {0, 1, 2, HINT_UNIT_SIZE - 1}}

FnBuildFrameBytes ==
    /\ fn = NoFn
    /\ \E codec \in {"brotli", "lz4"}, u \in FrameByteCounts,
          data \in {<<>>, Compress(<<>>), Compress(<<11, 12>>)} :
         /\ fn' = [name |-> "build_frame_bytes", codec |-> codec,
                   compressed_data |-> data, uncompressed_bytes |-> u]
         /\ fnret' = [res |-> "ok", frame |-> build_frame_bytes(codec, data, u)]

\* Headers for BrotliDecoder::new / Lz4Decoder::new: right and wrong magic,
\* skip_size 4, 8 and 5, right and wrong "BR" marker, cut to any length.
HeaderFields ==
    [magic : {<<80, 42, 77, 24>>, <<80, 42, 77, 25>>},
     skip : {LE32(4), LE32(8), LE32(5)},
     marker : {<<66, 82>>, <<66, 83>>}]

HeaderBytes(h) == h.magic \o h.skip \o LE32(1) \o h.marker \o <<0, 0, 9>>

HeaderReads == {3, 12, 16}

FnDecoderNew ==
    /\ fn = NoFn
    /\ \E codec \in {"brotli", "lz4"}, h \in HeaderFields, first \in HeaderReads :
         \E len \in 0..Len(HeaderBytes(h)) :
           LET src == Take(HeaderBytes(h), len)
               d == DecoderNew(codec, src, first, 1)
           IN /\ fn' = [name |-> "decoder_new", codec |-> codec, src |-> src,
                        first |-> first]
              /\ fnret' = [res |-> IF d.st = "failed" THEN "err" ELSE "ok",
                           rk |-> d.rk, pos |-> d.pos]

(***************************************************************************)
(* compress_encrypted (util/compress.rs).  ArchiveWriter and Password are  *)
(* not part of the files modelled here and follow the specification: a new *)
(* writer has the single default method LZMA2, set_content_methods         *)
(* replaces the chain, and finish() encodes every block with the chain in  *)
(* force.  A password is its sequence of bytes.                            *)
(***************************************************************************)
DefaultMethods == <<[method |-> "LZMA2"]>>

ArchiveWriterNew == [content_methods |-> DefaultMethods]

set_content_methods(w, methods) == [w EXCEPT !.content_methods = methods]

\* AesEncoderOptions::new(password).into()
AesEncoderOptions(password) == [method |-> "AES256_SHA256", password |-> password]

\* !password.is_empty(), and the variant that configures AES always
PasswordGiven_always(password) == TRUE

PasswordGiven(password) == password # <<>>

compress_encrypted(password) ==
    LET archive_writer == ArchiveWriterNew
        w == IF PasswordGiven(password)
             THEN set_content_methods(archive_writer,
                      <<AesEncoderOptions(password), [method |-> "LZMA2"]>>)
             ELSE archive_writer
    IN [res |-> "ok", content_methods |-> w.content_methods,
        block_coders |-> [i \in 1..Len(w.content_methods) |-> w.content_methods[i].method]]

FnCompressEncrypted ==
    /\ fn = NoFn
    /\ \E password \in {<<>>, <<0, 0>>, <<1, 2>>, <<1, 2, 3, 4>>} :
         /\ fn' = [name |-> "compress_encrypted", password |-> password]
         /\ fnret' = compress_encrypted(password)

(***************************************************************************)
(* decompress / decompress_file with default_entry_extract_fn_async        *)
(* (util/decompress.rs).  A path is its sequence of components below the   *)
(* root directory; an entry name is a relative or an absolute path.  The   *)
(* file system resolves ".." to the parent directory.  fs is the set of    *)
(* resolved paths that exist.                                              *)
(***************************************************************************)
MaxEntries == 2

\* Path::parent
ParentPath(path) == SubSeq(path, 1, Len(path) - 1)

RECURSIVE Resolve(_, _)
Resolve(comps, acc) ==
    IF comps = <<>> THEN acc
    ELSE Resolve(Tail(comps),
                 IF Head(comps) = ".."
                 THEN (IF acc = <<>> THEN acc ELSE ParentPath(acc))
                 ELSE Append(acc, Head(comps)))

\* Path::join: an absolute argument replaces the base, a relative one is
\* appended component by component, ".." included.
PathJoin(base, name) == IF name.abs THEN name.comps ELSE base \o name.comps

\* afs::create_dir_all(path): the path and every missing ancestor.
create_dir_all(fs, path) ==
    fs \cup {Resolve(Take(path, k), <<>>) : k \in 0..Len(path)}

default_entry_extract_fn_async(fs, entry, dest) ==
    IF entry.is_directory THEN create_dir_all(fs, dest)
    ELSE LET p == ParentPath(dest)
             made == IF dest # <<>> /\ Resolve(p, <<>>) \notin fs
                     THEN create_dir_all(fs, p) ELSE fs
         IN made \cup {Resolve(dest, <<>>)}

RECURSIVE for_each_entry_path(_, _, _)
for_each_entry_path(entries, dest, fs) ==
    IF entries = <<>> THEN fs
    ELSE for_each_entry_path(Tail(entries), dest,
             default_entry_extract_fn_async(fs, Head(entries),
                                            PathJoin(dest, Head(entries).name)))

decompress_impl_async(entries, dest, fs0) ==
    LET fs == IF Resolve(dest, <<>>) \notin fs0 THEN create_dir_all(fs0, dest) ELSE fs0
    IN for_each_entry_path(entries, dest, fs)

EntryNames ==
    {[abs |-> FALSE, comps |-> <<"a">>], [abs |-> FALSE, comps |-> <<"d", "a">>],
     [abs |-> FALSE, comps |-> <<"d", "..", "a">>],
     [abs |-> FALSE, comps |-> <<"..", "a">>],
     [abs |-> FALSE, comps |-> <<"d", "..", "..", "a">>],
     [abs |-> TRUE, comps |-> <<"a">>]}

ArchiveEntries == [name : EntryNames, is_directory : BOOLEAN]

DestDir == <<"tmp", "out">>

FnDecompress ==
    /\ fn = NoFn
    /\ \E n \in 1..MaxEntries :
         \E entries \in [1..n -> ArchiveEntries] :
           LET before == {<<>>, <<"tmp">>} IN
           /\ fn' = [name |-> "decompress", entries |-> entries, dest |-> DestDir]
           /\ fnret' = [res |-> "ok",
                        created |-> decompress_impl_async(entries, DestDir, before)
                                      \ before]

NextFn ==
    \/ FnGetLzma2DicSize /\ UNCHANGED <<solidVars, fdecVars, fencVars, encVars, aesVars, addVars, adecVars, cwVars, stripVars>>
    \/ FnGetAesKey /\ UNCHANGED <<solidVars, fdecVars, fencVars, encVars, aesVars, addVars, adecVars, cwVars, stripVars>>
    \/ FnKeyRound /\ UNCHANGED <<solidVars, fdecVars, fencVars, encVars, aesVars, addVars, adecVars, cwVars, stripVars>>
    \/ FnKeyDone /\ UNCHANGED <<solidVars, fdecVars, fencVars, encVars, aesVars, addVars, adecVars, cwVars, stripVars>>
    \/ FnBuildFrameBytes /\ UNCHANGED <<solidVars, fdecVars, fencVars, encVars, aesVars, addVars, adecVars, cwVars, stripVars>>
    \/ FnDeltaProperties /\ UNCHANGED <<solidVars, fdecVars, fencVars, encVars, aesVars, addVars, adecVars, cwVars, stripVars>>
    \/ FnLzma2Properties /\ UNCHANGED <<solidVars, fdecVars, fencVars, encVars, aesVars, addVars, adecVars, cwVars, stripVars>>
    \/ FnAddDecoder /\ UNCHANGED <<solidVars, fdecVars, fencVars, encVars, aesVars, addVars, adecVars, cwVars, stripVars>>
    \/ FnAddEncoder /\ UNCHANGED <<solidVars, fdecVars, fencVars, encVars, aesVars, addVars, adecVars, cwVars, stripVars>>
    \/ FnDecompress /\ UNCHANGED <<solidVars, fdecVars, fencVars, encVars, aesVars, addVars, adecVars, cwVars, stripVars>>
    \/ FnCompressEncrypted /\ UNCHANGED <<solidVars, fdecVars, fencVars, encVars, aesVars, addVars, adecVars, cwVars, stripVars>>
    \/ FnDecoderNew /\ UNCHANGED <<solidVars, fdecVars, fencVars, encVars, aesVars, addVars, adecVars, cwVars, stripVars>>

SpecFn == InitFn /\ [][NextFn]_vars

(***************************************************************************)
(* Claims about get_aes_key.                                               *)
(***************************************************************************)
KeyCall == fn.name = "get_aes_key"

KeyB0 == fn.properties[1]

KeyB1 == fn.properties[2]

ClaimedIvSize == ((KeyB0 \div 64) % 2) + (KeyB1 % 16)

ClaimedSaltSize == ((KeyB0 \div 128) % 2) + (KeyB1 \div 16)

ClaimedSalt == [j \in 1..ClaimedSaltSize |-> fn.properties[2 + j]]

ClaimedIv ==
    [j \in 1..16 |-> IF j <= ClaimedIvSize
                     THEN fn.properties[2 + ClaimedSaltSize + j] ELSE 0]

KeyParsed ==
    /\ KeyCall
    /\ Len(fn.properties) >= 2
    /\ Len(fn.properties) >= 2 + ClaimedSaltSize + ClaimedIvSize

\* C22: get_aes_key takes cycles, iv_size and salt_size from the first two
\* bytes, the salt and the zero-padded IV from the bytes that follow, and
\* answers a block shorter than 2 + salt_size + iv_size with an error.
C22_KeyPropertiesParsed ==
    KeyCall =>
        /\ ~KeyParsed => fnret.res = "other"
        /\ (KeyParsed /\ fnret.res \in {"hashing", "ok"}) =>
               /\ fnret.cycles = KeyB0 % 64
               /\ fnret.salt = ClaimedSalt
               /\ fnret.iv = ClaimedIv
        /\ (KeyParsed /\ fn.password = <<>>) => fnret.res = "PasswordRequired"

C22_Witness ==
    /\ KeyParsed
    /\ fnret.res = "ok"
    /\ KeyB0 = 192 + 1
    /\ KeyB1 = 255
    /\ Len(fnret.salt) = 16
    /\ fnret.iv[16] = 100 + 32

\* salt || password, truncated or zero-padded to 32 bytes.
ClaimedDirectKey ==
    [j \in 1..32 |-> IF j <= ClaimedSaltSize THEN ClaimedSalt[j]
                     ELSE IF j - ClaimedSaltSize <= Len(fn.password)
                     THEN fn.password[j - ClaimedSaltSize] ELSE 0]

\* C23: with cycles = 0x3F and a non-empty password get_aes_key returns
\* the key salt || password, truncated or zero-padded to 32 bytes.
C23_DirectKey ==
    (KeyParsed /\ KeyB0 % 64 = 63 /\ fn.password # <<>>) =>
        /\ fnret.res = "ok"
        /\ fnret.aes_key = ClaimedDirectKey

\* 2^n in four 16-bit limbs, least significant first.
TwoToThe(n) == [j \in 1..4 |-> IF j - 1 = n \div 16 THEN 2 ^ (n % 16) ELSE 0]

\* The 8-byte little-endian encoding of a round number below 2^24.
CounterBytes(i) == [j \in 1..8 |-> IF j <= 3 THEN (i \div (256 ^ (j - 1))) % 256 ELSE 0]

\* C24: with cycles < 0x3F get_aes_key makes exactly 2^cycles rounds and
\* feeds round i with the salt, the password and the 8-byte little-endian
\* encoding of i.
C24_HashRounds ==
    (KeyParsed /\ KeyB0 % 64 < 63 /\ fn.password # <<>>) =>
        /\ fnret.res \in {"hashing", "ok"}
        /\ <<fnret.rounds[2], fnret.rounds[1], 0, 0>> = TwoToThe(KeyB0 % 64)
        /\ fn.i >= 1 => fn.fed = <<ClaimedSalt, fn.password, CounterBytes(fn.i - 1)>>
        /\ fnret.res = "ok" => fnret.rounds = U64OfInt(fn.i)

(***************************************************************************)
(* Claims about the frame header.                                          *)
(***************************************************************************)
\* min(ceil(u / 65536), 0xFFFF) for u = hi * 65536 + lo.
ClaimedHint ==
    LET hi == fn.uncompressed_bytes[1]
        lo == fn.uncompressed_bytes[2]
        c == IF lo = 0 THEN hi ELSE hi + 1
    IN IF c < 65535 THEN c ELSE 65535

\* C25: the hint field of an emitted Brotli frame (bytes 15 and 16, little
\* endian) is min(ceil(u / 65536), 0xFFFF) for u uncompressed bytes.
C25_BrotliHint ==
    (fn.name = "build_frame_bytes" /\ fn.codec = "brotli" /\ fnret.frame # <<>>) =>
        /\ Len(fnret.frame) = 16 + Len(fn.compressed_data)
        /\ fnret.frame[15] + (256 * fnret.frame[16]) = ClaimedHint

C25_Witness ==
    /\ fn.name = "build_frame_bytes"
    /\ fn.codec = "brotli"
    /\ fn.uncompressed_bytes = U64(U16_MAX - 1, 1)
    /\ Len(fnret.frame) > 16
    /\ fnret.frame[15] = 255
    /\ fnret.frame[16] = 255

(***************************************************************************)
(* Claims about property round trips.                                      *)
(***************************************************************************)
\* C26: the Delta property byte is distance - 1, add_decoder rebuilds the
\* configured distance from it, and the decoded distance lies in 1..256.
C26_DeltaRoundTrip ==
    fn.name = "delta" =>
        /\ fnret.properties = <<fn.distance - 1>>
        /\ fnret.decoded = fn.distance
        /\ fnret.decoded >= 1 /\ fnret.decoded <= 256

\* Dictionary sizes of the form 2^n or 3 * 2^(n-1).
CanonicalDictSizes == {DicSizeOf(b) : b \in 0..39}

\* C29: the LZMA2 property byte lies in 0..40 and decodes to a dictionary
\* size of at least the configured one, and to exactly the configured one
\* when that is 2^n or 3 * 2^(n-1).
C29_Lzma2RoundTrip ==
    fn.name = "lzma2" =>
        /\ fnret.properties[1] >= 0 /\ fnret.properties[1] <= 40
        /\ fnret.decoded.ok
        /\ Ge64(fnret.decoded.size, fn.dict_size)
        /\ fn.dict_size \in CanonicalDictSizes => fnret.decoded.size = fn.dict_size

(***************************************************************************)
(* Claims about unsupported methods.                                       *)
(***************************************************************************)
\* The ids that have no arm: outside the table, or behind a disabled feature.
NoArmFor(id, features) ==
    \/ id \notin RegisteredIds
    \/ id = "PPMD" /\ "ppmd" \notin features
    \/ id = "BROTLI" /\ "brotli" \notin features
    \/ id = "BZIP2" /\ "bzip2" \notin features
    \/ id = "DEFLATE" /\ "deflate" \notin features
    \/ id = "LZ4" /\ "lz4" \notin features
    \/ id = "ZSTD" /\ "zstd" \notin features
    \/ id = "AES256_SHA256" /\ "aes256" \notin features

\* C27: for a method id outside the registered table, or one whose codec
\* is not dispatched, add_decoder and add_encoder return
\* UnsupportedCompressionMethod, having read nothing from the input and
\* written nothing to the sink.
C27_UnsupportedMethod ==
    /\ (fn.name = "add_decoder" /\ NoArmFor(fn.call.id, fn.features)) =>
           /\ fnret.res = "Err"
           /\ fnret.kind = "UnsupportedCompressionMethod"
           /\ fnret.read = 0
    /\ (fn.name = "add_encoder" /\ NoArmFor(fn.call.id, fn.features)) =>
           /\ fnret.res = "Err"
           /\ fnret.kind = "UnsupportedCompressionMethod"
           /\ fnret.written = 0

C27_Witness ==
    /\ fn.name = "add_decoder"
    /\ fn.call.id = "BROTLI"
    /\ "brotli" \notin fn.features
    /\ fn.call.input = Frame("brotli", <<11>>)
    /\ fnret.kind = "UnsupportedCompressionMethod"
    /\ fnret.read = 0

(***************************************************************************)
(* StripLzmaHeaderWrite (encoder.rs): drops the first 13 bytes written     *)
(* through it.  The caller writes the stream 1, 2, 3, ...: each call       *)
(* offers the bytes after the ones reported as accepted so far (sw.pos).   *)
(* sw.consumed is how many bytes of the last argument were dropped or      *)
(* taken by the sink, sw.n what the call returned.                         *)
(***************************************************************************)
LZMA_HEADER == 13

MaxStream == 16

MaxStripBuf == 15

StripNew == [st |-> "open", offset |-> 0, sink |-> <<>>, pos |-> 0, n |-> 0, consumed |-> 0]

\* What the inner sink may answer to a write of len bytes.
StripSinkAnswers(len) ==
    {[pending |-> FALSE, n |-> k] : k \in 1..len} \cup {[pending |-> TRUE, n |-> 0]}

\* StripLzmaHeaderWrite::poll_write; ans is the inner sink's answer, asked
\* for only when bytes are passed on.
strip_poll_write(w, buf, ans) ==
    LET skip == IF w.offset < LZMA_HEADER THEN LZMA_HEADER - w.offset ELSE 0 IN
    IF w.offset < LZMA_HEADER /\ Len(buf) <= skip
    THEN [w |-> [w EXCEPT !.offset = @ + Len(buf), !.pos = @ + Len(buf),
                          !.n = Len(buf), !.consumed = Len(buf)],
          ret |-> "ok"]
    ELSE LET to_send == Drop(buf, skip)
             offset == IF w.offset < LZMA_HEADER THEN LZMA_HEADER ELSE w.offset
         IN IF ans.pending
            THEN [w |-> [w EXCEPT !.offset = offset, !.n = 0, !.consumed = 0],
                  ret |-> "pending"]
            ELSE [w |-> [w EXCEPT !.offset = offset,
                                  !.sink = @ \o Take(to_send, ans.n),
                                  !.pos = @ + ans.n, !.n = ans.n,
                                  !.consumed = skip + ans.n],
                  ret |-> "ok"]

InitStrip ==
    /\ sw = StripNew
    /\ swret = "none"
    /\ IdleSolid /\ IdleFdec /\ IdleFenc /\ IdleEnc /\ IdleAes /\ IdleAdd /\ IdleAdec /\ IdleCw
    /\ IdleFn

SwPollWrite ==
    /\ sw.st = "open"
    /\ \E len \in 1..MaxStripBuf :
         /\ sw.pos + len <= MaxStream
         /\ \E ans \in StripSinkAnswers(len) :
              LET r == strip_poll_write(sw, [j \in 1..len |-> sw.pos + j], ans) IN
              /\ sw' = r.w
              /\ swret' = r.ret

\* poll_flush and poll_close go to the inner sink.
SwPollFlush ==
    /\ sw.st = "open"
    /\ \E ret \in {"flush_ok", "flush_pending"} :
         /\ sw' = [sw EXCEPT !.n = 0, !.consumed = 0]
         /\ swret' = ret

SwPollClose ==
    /\ sw.st = "open"
    /\ \E ret \in {"close_ok", "close_pending"} :
         /\ sw' = [sw EXCEPT !.n = 0, !.consumed = 0,
                             !.st = IF ret = "close_ok" THEN "closed" ELSE "open"]
         /\ swret' = ret

NextStrip ==
    \/ SwPollWrite /\ UNCHANGED <<solidVars, fdecVars, fencVars, encVars, aesVars, addVars, adecVars, cwVars, fnVars>>
    \/ SwPollFlush /\ UNCHANGED <<solidVars, fdecVars, fencVars, encVars, aesVars, addVars, adecVars, cwVars, fnVars>>
    \/ SwPollClose /\ UNCHANGED <<solidVars, fdecVars, fencVars, encVars, aesVars, addVars, adecVars, cwVars, fnVars>>

SpecStrip == InitStrip /\ [][NextStrip]_vars

\* The stream up to position pos without its first 13 bytes.
StrippedUpTo(pos) == [j \in 1..(IF pos > 13 THEN pos - 13 ELSE 0) |-> 13 + j]

\* C28: whatever the split into poll_write calls and the sink's answers,
\* the sink holds the caller's stream without its first 13 bytes, and a
\* poll_write returns the number of bytes of its argument it consumed.
C28_StripsExactlyHeader ==
    sw.st # "none" =>
        /\ sw.sink = StrippedUpTo(sw.pos)
        /\ swret = "ok" => sw.n = sw.consumed

(***************************************************************************)
(* Further claims about the Encoder enum.                                  *)
(***************************************************************************)
\* C30: when the empty-buffer poll_write that finalizes the Lzma, Bzip2,
\* Deflate or Zstd encoder returned Pending because the codec's close was
\* Pending, the next call does not panic, and once a call reports the
\* finalization done the codec's trailer has gone to the sink.
C30_PendingCloseRepeatable ==
    [][/\ (en.variant \in TakeClose /\ enret = "w_pending") => enret' # "panic"
       /\ (en.variant \in TakeClose /\ enret' = "w_zero") => ~en'.open]_vars

(***************************************************************************)
(* collect_file_paths (util/compress.rs).  The file tree is a fixed set of *)
(* places, place 1 being src; ParentOf gives the directory a place lies    *)
(* in.  A place holds nothing, a regular file, a directory or a symbolic   *)
(* link (any entry whose file_type is neither file nor directory).  The    *)
(* filter is the set of paths it rejects.  One step is one iteration of    *)
(* `while let Some(path) = stack.pop()`.                                   *)
(***************************************************************************)
ParentOf == <<1, 1, 1, 2, 2, 3>>

Places == DOMAIN ParentOf

SrcPlace == CHOOSE n \in Places : ParentOf[n] = n

Trees ==
    {k \in [Places -> {"none", "file", "dir", "link"}] :
        /\ k[SrcPlace] \in {"file", "dir"}
        /\ \A n \in Places \ {SrcPlace} : k[n] # "none" => k[ParentOf[n]] = "dir"}

\* ftype.is_file() || ftype.is_dir(), and the variant that lists every entry
Listed_all(ftype) == ftype # "none"

Listed(ftype) == ftype = "file" \/ ftype = "dir"

\* The entries of read_dir(path) that are pushed on the stack.
PushedChildren(tree, path) ==
    SelectSeq([i \in Places |-> i],
              LAMBDA c : c # SrcPlace /\ ParentOf[c] = path /\ Listed(tree[c]))

collect_step(tree, rejected, c) ==
    LET path == c.stack[Len(c.stack)]
        rest == SubSeq(c.stack, 1, Len(c.stack) - 1)
        seen == [c EXCEPT !.visited = Append(@, path), !.stack = rest]
    IN IF path \in rejected THEN seen
       ELSE IF tree[path] = "dir"
       THEN [seen EXCEPT !.stack = rest \o PushedChildren(tree, path)]
       ELSE [seen EXCEPT !.paths = Append(@, path)]

FnCollectStart ==
    /\ fn = NoFn
    /\ \E tree \in Trees :
         \E rejected \in SUBSET {n \in Places : tree[n] # "none"} :
           /\ fn' = [name |-> "collect_file_paths", tree |-> tree, rejected |-> rejected]
           /\ fnret' = [res |-> "running", stack |-> <<SrcPlace>>, paths |-> <<>>,
                        visited |-> <<>>]

FnCollectStep ==
    /\ fn.name = "collect_file_paths"
    /\ fnret.res = "running"
    /\ fnret.stack # <<>>
    /\ fnret' = collect_step(fn.tree, fn.rejected, fnret)
    /\ UNCHANGED fn

FnCollectReturn ==
    /\ fn.name = "collect_file_paths"
    /\ fnret.res = "running"
    /\ fnret.stack = <<>>
    /\ fnret' = [fnret EXCEPT !.res = "ok"]
    /\ UNCHANGED fn

NextCollect ==
    \/ FnCollectStart /\ UNCHANGED <<solidVars, fdecVars, fencVars, encVars, aesVars, addVars, adecVars, cwVars, stripVars>>
    \/ FnCollectStep /\ UNCHANGED <<solidVars, fdecVars, fencVars, encVars, aesVars, addVars, adecVars, cwVars, stripVars>>
    \/ FnCollectReturn /\ UNCHANGED <<solidVars, fdecVars, fencVars, encVars, aesVars, addVars, adecVars, cwVars, stripVars>>

\* The executor runs the future to completion: a started traversal keeps
\* taking steps.
SpecCollect == InitFn /\ [][NextCollect]_vars /\ WF_vars(NextCollect)

\* The filter accepted the path and every directory between src and it.
RECURSIVE AcceptedPath(_)
AcceptedPath(n) ==
    /\ n \notin fn.rejected
    /\ n = SrcPlace \/ AcceptedPath(ParentOf[n])

Collected == {fnret.paths[i] : i \in 1..Len(fnret.paths)}

\* Every path is visited at most once and nothing below a rejected
\* directory is visited.
VisitsAreSound ==
    /\ \A i, j \in 1..Len(fnret.visited) :
          fnret.visited[i] = fnret.visited[j] => i = j
    /\ \A i \in 1..Len(fnret.visited) :
          fnret.visited[i] = SrcPlace \/ AcceptedPath(ParentOf[fnret.visited[i]])

\* C36: collect_file_paths returns exactly the regular files below src (or
\* src itself when it is not a directory) that the filter accepted together
\* with every directory between src and them; entries that are neither file
\* nor directory are never visited, nothing below a rejected directory is
\* visited, every path is visited at most once and the traversal terminates.
C36_CollectsRegularFiles ==
    /\ [](fn.name = "collect_file_paths" =>
            /\ VisitsAreSound
            /\ \A i \in 1..Len(fnret.visited) : fn.tree[fnret.visited[i]] # "link"
            /\ fnret.res = "ok" =>
                 /\ Collected = {n \in Places : fn.tree[n] = "file" /\ AcceptedPath(n)}
                 /\ Len(fnret.paths) = Cardinality(Collected))
    /\ (fn.name = "collect_file_paths") ~> (fnret.res = "ok")

\* C36 as stated: every non-directory path that the filter accepted is
\* returned.
C36_CollectsNonDirectories ==
    fn.name = "collect_file_paths" =>
        /\ VisitsAreSound
        /\ fnret.res = "ok" =>
             /\ Collected = {n \in Places : fn.tree[n] \in {"file", "link"} /\ AcceptedPath(n)}
             /\ Len(fnret.paths) = Cardinality(Collected)

\* A finished traversal that skipped a rejected directory with a file in it,
\* passed a symbolic link and returned a file from a subdirectory.
C36_Witness ==
    /\ fn.name = "collect_file_paths" /\ fnret.res = "ok"
    /\ \E d \in fn.rejected : fn.tree[d] = "dir" /\ \E n \in Places : n # d /\ ParentOf[n] = d /\ fn.tree[n] = "file"
    /\ \E n \in Places : fn.tree[n] = "link" /\ AcceptedPath(n)
    /\ \E n \in Collected : ParentOf[n] # SrcPlace

C37_WitnessEmpty ==
    /\ fn.name = "compress_encrypted" /\ fn.password = <<>>
    /\ fnret.res = "ok"

\* C38: every file or directory that decompress creates with the default
\* extraction function lies inside the destination directory, whatever the
\* entry names are.
C38_ExtractsInsideDest ==
    fn.name = "decompress" =>
        \A p \in fnret.created : IsPrefix(fn.dest, p)

(***************************************************************************)
(* LazyFileReader (writer/lazy_file_reader.rs) over a file of len bytes.   *)
(* opened counts the File::open futures that resolved to a file, handles   *)
(* the files currently held, tries the futures created, polls the calls of *)
(* poll_read.                                                              *)
(***************************************************************************)
MaxFileLen == 3

MaxLazyBuf == 2

MaxPolls == 4

MaxTries == 2

\* LazyFileReader::new
LazyFileReaderNew ==
    [res |-> "new", reader |-> FALSE, opening |-> FALSE, end |-> FALSE,
     pos |-> 0, opened |-> 0, handles |-> 0, tries |-> 0, polls |-> 0, buf |-> 0]

\* What polling the File::open future can answer.
OpenAnswers == {"pending", "ok", "err"}

\* What afs::File::poll_read can answer for a buffer of n bytes with left
\* bytes remaining: Pending, an error, or a count; the count is 0 exactly
\* when the buffer is empty or nothing remains.
FileReadAnswers(n, left) ==
    {[kind |-> "pending", n |-> 0], [kind |-> "err", n |-> 0]}
      \cup {[kind |-> "ok", n |-> k] :
               k \in (IF Min(n, left) = 0 THEN {0} ELSE 1..Min(n, left))}

\* The part of poll_read that runs while self.reader is None.
lazy_open(r, openAns) ==
    LET r1 == IF ~r.opening THEN [r EXCEPT !.opening = TRUE, !.tries = @ + 1] ELSE r IN
    CASE openAns = "pending" -> [r1 EXCEPT !.res = "pending"]
      [] openAns = "ok" ->
           [r1 EXCEPT !.reader = TRUE, !.opening = FALSE, !.opened = @ + 1,
                      !.handles = @ + 1, !.res = "opened"]
      [] OTHER -> [r1 EXCEPT !.opening = FALSE, !.res = "err"]

\* if n == 0 { self.end = true; self.reader = None; }, and the variant that
\* keeps the file
AtZero_keepReader(r) == [r EXCEPT !.end = TRUE]

AtZero(r) == [r EXCEPT !.end = TRUE, !.reader = FALSE, !.handles = @ - 1]

lazy_poll_read(r0, n, openAns, readAns) ==
    LET r == [r0 EXCEPT !.polls = Min(@ + 1, MaxPolls), !.buf = n] IN
    IF r.end THEN [r EXCEPT !.res = "ok0"]
    ELSE
      LET o == IF ~r.reader THEN lazy_open(r, openAns) ELSE r IN
      IF ~o.reader THEN o
      ELSE CASE readAns.kind = "pending" -> [o EXCEPT !.res = "pending"]
             [] readAns.kind = "err" -> [o EXCEPT !.res = "err"]
             [] readAns.n = 0 -> [AtZero(o) EXCEPT !.res = "ok0"]
             [] OTHER -> [o EXCEPT !.pos = @ + readAns.n, !.res = "okn"]

LfNew ==
    /\ fn = NoFn
    /\ \E len \in 0..MaxFileLen : fn' = [name |-> "LazyFileReader", len |-> len]
    /\ fnret' = LazyFileReaderNew

LfPollRead ==
    /\ fn.name = "LazyFileReader"
    /\ fnret.tries < MaxTries \/ fnret.opening \/ fnret.reader \/ fnret.end
    /\ \E n \in 0..MaxLazyBuf, openAns \in OpenAnswers :
         \E readAns \in FileReadAnswers(n, fn.len - fnret.pos) :
           fnret' = lazy_poll_read(fnret, n, openAns, readAns)
    /\ UNCHANGED fn

NextLazy ==
    \/ LfNew /\ UNCHANGED <<solidVars, fdecVars, fencVars, encVars, aesVars, addVars, adecVars, cwVars, stripVars>>
    \/ LfPollRead /\ UNCHANGED <<solidVars, fdecVars, fencVars, encVars, aesVars, addVars, adecVars, cwVars, stripVars>>

SpecLazy == InitFn /\ [][NextLazy]_vars

\* The file is opened no earlier than the first poll_read, at most one
\* handle is held, and once Ok(0) was returned the handle is dropped, the
\* file is not opened again and every read returns Ok(0).
LazyHandleDiscipline ==
    fn.name = "LazyFileReader" =>
        /\ fnret.polls = 0 => (fnret.opened = 0 /\ fnret.tries = 0)
        /\ fnret.handles <= 1 /\ fnret.opened <= 1
        /\ fnret.end => (fnret.handles = 0 /\ ~fnret.opening /\ fnret.res = "ok0")

\* C39: a LazyFileReader opens its file no earlier than the first poll_read
\* and holds at most one handle; it returns Ok(0) only when the file has no
\* more bytes, also for an empty caller buffer; after Ok(0) the handle is
\* dropped and every later read returns Ok(0) without reopening.
C39_LazyFileReader ==
    /\ LazyHandleDiscipline
    /\ (fn.name = "LazyFileReader" /\ fnret.res = "ok0") => fnret.pos = fn.len

\* Ok(0) for an empty buffer while the file has bytes left.
C39_EmptyBufferEndsFile ==
    /\ fn.name = "LazyFileReader" /\ fnret.res = "ok0"
    /\ fnret.buf = 0 /\ fnret.pos < fn.len /\ fnret.end

=============================================================================
